---- MODULE Spec2Model ----
(***************************************************************************)
(* A model of the negative-test fixture tool: the field mutators of        *)
(* Replit/test_generator.py, the fixture generators (generate_test_files,  *)
(* Generating_MISS-RE_Tests/Required.py, Generating_MISS-OE_Tests/         *)
(* Optional2.py) and the specification extractors of SPEC_TO_JSON.         *)
(*                                                                         *)
(* JSON values are tagged pairs <<tag, payload>>:                          *)
(*   <<"str", s>>, <<"int", n>>, <<"list", <<v1, ..., vn>> >> and          *)
(*   <<"dict", << <<k1, v1>>, ..., <<kn, vn>> >> >>.                       *)
(* A dict keeps its pairs in insertion order, as a Python dict does, with  *)
(* pairwise distinct keys.                                                 *)
(***************************************************************************)
EXTENDS Integers, Sequences, FiniteSets, TLC

VARIABLES
  \* process_json_field_removal called twice in a row (SpecTree)
  tdoc,        \* the document handed to the first call
  tpath,       \* field_path, a sequence of path tokens
  tmode,       \* modification_mode
  tres1,       \* <<outcome, document>> after the first call
  tres2,       \* <<outcome, document>> after the second call, on the result
  tpc,         \* "start" | "once" | "twice"
  \* a generation run (SpecGen)
  gen,             \* "unified" (test_generator.py) | "miss_re" | "miss_oe"
  plan,            \* the test types still to run, in order
  test_type,       \* "required" | "optional"
  modification_mode,
  output_prefix,   \* CONFIG's output_prefix, "" when the key is not set
  spec_data,       \* the specification: <<name, details>> in file order
  max_file,        \* the sample: <<extension, content>>
  sample0,         \* the sample as it was when the run began (history)
  file_format,     \* what detect_file_format answered
  target_fields,   \* find_fields_by_occurrence's list
  field_no,        \* the loop's position i, from 1
  writes,          \* the files written, in order: <<filename, content, element>>
  modified_keys,   \* the scripts' list of modified keys
  found,           \* the scripts' flag
  manifest,        \* <<"none">> or <<"written", filename, lines>>
  selected,        \* the elements this pass's loop body was entered for (history)
  gpc,             \* "ready" | "loop" | "crashed"
  \* an extraction of the specification from the rows of a sheet (SpecHB)
  extractor,       \* which extract_*_hierarchy runs
  headers,         \* df.columns
  rows,            \* the rows of df, each a sequence of cells
  row_idx,         \* the position of the loop over df.iterrows(), from 1
  result,          \* the hierarchy built so far
  element_counter, \* HierarchyBuilder.element_counter
  added,           \* the rows stored, in order (history):
                   \* <<row, hierarchy_path, element_name, key, entry>>
  xpc,             \* "start" | "rows" | "done" | "crashed"
  \* one call of a mutator of the XML and the delimited-text families (SpecText)
  mfamily,         \* "XML" | "EDI-X12" | "EDIFACT" | "IDOC"
  mtext,           \* the content handed to the mutator
  mfield,          \* field_path, a string
  mmode,           \* modification_mode
  mout,            \* <<outcome, content>> after the call
  mpc,             \* "start" | "called"
  \* a session of main.py (SpecPipe)
  pmode,           \* "argv": one option from the command line | "interactive"
  ppc,             \* "menu" | "extract" | "required" | "optional" | "report" | "exited"
  success,         \* run_all_processes' flag
  plog,            \* the steps started, in order (history): <<step, outcome, by>>
  run_from,        \* the length of plog when run_all_processes was last called (history)
  report,          \* the message of the last call of run_all_processes, "" before it
  choices          \* the number of options taken

tvars == <<tdoc, tpath, tmode, tres1, tres2, tpc>>
gvars == <<gen, plan, test_type, modification_mode, output_prefix, spec_data,
           max_file, sample0, file_format, target_fields, field_no, writes,
           modified_keys, found, manifest, selected, gpc>>
hvars == <<extractor, headers, rows, row_idx, result, element_counter, added, xpc>>
mvars == <<mfamily, mtext, mfield, mmode, mout, mpc>>
pvars == <<pmode, ppc, success, plog, run_from, report, choices>>
vars == <<tvars, gvars, hvars, mvars, pvars>>

----------------------------------------------------------------------------
(* JSON values and Python's dict and list operations                       *)

S(s) == <<"str", s>>
N(n) == <<"int", n>>
D(pairs) == <<"dict", pairs>>
L(items) == <<"list", items>>

Tag(v) == v[1]
Val(v) == v[2]
IsDict(v) == Tag(v) = "dict"
IsList(v) == Tag(v) = "list"

\* key in obj
HasKey(obj, k) == \E i \in 1..Len(Val(obj)) : Val(obj)[i][1] = k

KeyPos(obj, k) == CHOOSE i \in 1..Len(Val(obj)) : Val(obj)[i][1] = k

\* obj[k]
Get(obj, k) == Val(obj)[KeyPos(obj, k)][2]

\* del obj[k]
DelKey(obj, k) == D(SelectSeq(Val(obj), LAMBDA p : p[1] # k))

\* obj[k] = v: an existing key keeps its place, a new key goes last
SetKey(obj, k, v) ==
  IF HasKey(obj, k)
  THEN D([i \in 1..Len(Val(obj)) |->
            IF Val(obj)[i][1] = k THEN <<k, v>> ELSE Val(obj)[i]])
  ELSE D(Append(Val(obj), <<k, v>>))

Marker == "commented-"

\* obj[f"commented-{k}"] = obj.pop(k)
RenameCommented(obj, k) == SetKey(DelKey(obj, k), Marker \o k, Get(obj, k))

\* Python's position of index i in a list of length n (1-based), negative
\* indices counting from the end; 0 when list[i] raises IndexError.
PyPos(n, i) ==
  IF i >= 0 THEN (IF i < n THEN i + 1 ELSE 0)
  ELSE (IF n + i >= 0 THEN n + i + 1 ELSE 0)

RemoveAt(seq, p) == [j \in 1..(Len(seq) - 1) |-> IF j < p THEN seq[j] ELSE seq[j + 1]]

\* lst.pop(i), for an index Python accepts
ListPopLast(lst, i) == L(RemoveAt(Val(lst), Len(Val(lst))))
ListPop(lst, i) == L(RemoveAt(Val(lst), PyPos(Len(Val(lst)), i)))

\* lst[i] = v
ListSet(lst, i, v) == L([Val(lst) EXCEPT ![PyPos(Len(Val(lst)), i)] = v])

\* sep.join(strs)
RECURSIVE JoinStr(_, _)
JoinStr(strs, sep) ==
  IF strs = <<>> THEN ""
  ELSE IF Len(strs) = 1 THEN strs[1]
  ELSE strs[1] \o sep \o JoinStr(Tail(strs), sep)

\* repr(v), as Python prints a value inside a container
RECURSIVE PyRepr(_)
PyRepr(v) ==
  CASE Tag(v) = "str" -> "'" \o Val(v) \o "'"
    [] Tag(v) = "int" -> ToString(Val(v))
    [] Tag(v) = "list" ->
         "[" \o JoinStr([i \in 1..Len(Val(v)) |-> PyRepr(Val(v)[i])], ", ") \o "]"
    [] Tag(v) = "dict" ->
         "{" \o JoinStr([i \in 1..Len(Val(v)) |->
                 "'" \o Val(v)[i][1] \o "': " \o PyRepr(Val(v)[i][2])], ", ") \o "}"

\* str(v), what an f-string puts for {v}
PyStr(v) == IF Tag(v) = "str" THEN Val(v) ELSE PyRepr(v)

\* a == b on Python values: dicts compare without regard to key order
RECURSIVE PyEq(_, _)
PyEq(a, b) ==
  IF Tag(a) # Tag(b) THEN FALSE
  ELSE CASE Tag(a) = "dict" ->
              /\ Len(Val(a)) = Len(Val(b))
              /\ \A i \in 1..Len(Val(a)) :
                   /\ HasKey(b, Val(a)[i][1])
                   /\ PyEq(Val(a)[i][2], Get(b, Val(a)[i][1]))
         [] Tag(a) = "list" ->
              /\ Len(Val(a)) = Len(Val(b))
              /\ \A i \in 1..Len(Val(a)) : PyEq(Val(a)[i], Val(b)[i])
         [] OTHER -> a = b

----------------------------------------------------------------------------
(* Field paths.  A path is a sequence of tokens: the separators "." and    *)
(* "/" and segments.  A segment is <<"seg", name, kind, index>>: kind      *)
(* "plain" for `name`, "index" for `name[index]` with an integer between   *)
(* the brackets, "badindex" for brackets that int() rejects.               *)

Dot == <<"sep", ".">>
Slash == <<"sep", "/">>
Key(name) == <<"seg", name, "plain", 0>>
Idx(name, i) == <<"seg", name, "index", i>>
BadIdx(name) == <<"seg", name, "badindex", 0>>

IsSep(tok) == tok[1] = "sep"
SegName(seg) == seg[2]
SegKind(seg) == seg[3]
SegIndex(seg) == seg[4]

\* field_path.strip().replace('/', '.').strip('.') and split('.') without
\* the empty parts: the segments in order.
PathParts(field_path) == SelectSeq(field_path, LAMBDA tok : ~IsSep(tok))

----------------------------------------------------------------------------
(* process_json_field_removal.  An outcome is "True", "False" or           *)
(* "IndexError" (list.pop and list[i] raise it for an index below -len);   *)
(* the result pairs it with the document as the call leaves it.            *)

RECURSIVE navigate_and_modify(_, _, _)
RECURSIVE NavigateItems(_, _, _, _)

\* the loop below run over reversed(obj): the last match wins
RECURSIVE NavigateItemsLast(_, _, _, _)
NavigateItemsLast(obj, j, path_parts, mode) ==
  IF j > Len(Val(obj)) THEN <<"False", obj>>
  ELSE LET at == Len(Val(obj)) + 1 - j
           r == navigate_and_modify(Val(obj)[at], path_parts, mode)
       IN
       IF r[1] = "False"
       THEN NavigateItemsLast(obj, j + 1, path_parts, mode)
       ELSE <<r[1], L([Val(obj) EXCEPT ![at] = r[2]])>>

\* for item in obj: if navigate_and_modify(item, path_parts): return True
NavigateItems(obj, j, path_parts, mode) ==
  IF j > Len(Val(obj)) THEN <<"False", obj>>
  ELSE LET r == navigate_and_modify(Val(obj)[j], path_parts, mode) IN
       IF r[1] = "False"
       THEN NavigateItems(obj, j + 1, path_parts, mode)
       ELSE <<r[1], L([Val(obj) EXCEPT ![j] = r[2]])>>

navigate_and_modify(obj, path_parts, mode) ==
  IF path_parts = <<>> THEN <<"False", obj>>
  ELSE
    LET current_key == Head(path_parts)
        remaining_parts == Tail(path_parts)
        key_name == SegName(current_key)
    IN
    IF SegKind(current_key) # "plain"
    THEN \* array notation like items[0]
      IF SegKind(current_key) = "badindex" THEN <<"False", obj>>
      ELSE
        LET index == SegIndex(current_key) IN
        IF IsDict(obj) /\ HasKey(obj, key_name)
        THEN
          LET lst == Get(obj, key_name) IN
          IF IsList(lst) /\ Len(Val(lst)) > index
          THEN
            IF PyPos(Len(Val(lst)), index) = 0 THEN <<"IndexError", obj>>
            ELSE IF remaining_parts = <<>>
            THEN
              IF mode = "remove"
              THEN <<"True", SetKey(obj, key_name, ListPop(lst, index))>>
              ELSE IF mode = "comment"
              THEN LET original_value == Val(lst)[PyPos(Len(Val(lst)), index)] IN
                   <<"True", SetKey(obj, key_name,
                        ListSet(lst, index, S(Marker \o PyStr(original_value))))>>
              ELSE <<"True", obj>>
            ELSE
              LET r == navigate_and_modify(
                         Val(lst)[PyPos(Len(Val(lst)), index)], remaining_parts, mode)
              IN <<r[1], SetKey(obj, key_name, ListSet(lst, index, r[2]))>>
          ELSE <<"False", obj>>
        ELSE <<"False", obj>>
    ELSE \* regular object property
      IF IsDict(obj)
      THEN
        IF remaining_parts = <<>>
        THEN
          IF HasKey(obj, key_name)
          THEN
            IF mode = "remove" THEN <<"True", DelKey(obj, key_name)>>
            ELSE IF mode = "comment" THEN <<"True", RenameCommented(obj, key_name)>>
            ELSE <<"True", obj>>
          ELSE <<"False", obj>>
        ELSE
          IF HasKey(obj, key_name)
          THEN LET r == navigate_and_modify(Get(obj, key_name), remaining_parts, mode)
               IN <<r[1], SetKey(obj, key_name, r[2])>>
          ELSE <<"False", obj>>
      ELSE IF IsList(obj)
      THEN NavigateItems(obj, 1, path_parts, mode)
      ELSE <<"False", obj>>

process_json_field_removal(data, field_path, mode) ==
  IF field_path = <<>> THEN <<"False", data>>
  ELSE IF PathParts(field_path) = <<>> THEN <<"False", data>>
  ELSE navigate_and_modify(data, PathParts(field_path), mode)

----------------------------------------------------------------------------
(* find_and_modify_keys of Required.py: the first occurrence of the key,   *)
(* depth first, and no further.  The result is <<found, data>>.            *)

\* del data[key] or data[f"commented-{key}"] = data.pop(key)
ModifyKey(data, key, mode) ==
  IF mode = "remove" THEN DelKey(data, key)
  ELSE IF mode = "comment" THEN RenameCommented(data, key)
  ELSE data

RECURSIVE find_and_modify_keys_RE(_, _, _)
RECURSIVE FindFirstBelow(_, _, _, _)

\* for sub_key in data / for item in data: return True at the first hit
FindFirstBelow(data, j, key, mode) ==
  IF j > Len(Val(data)) THEN <<FALSE, data>>
  ELSE LET child == IF IsDict(data) THEN Val(data)[j][2] ELSE Val(data)[j]
           r == find_and_modify_keys_RE(child, key, mode)
       IN IF r[1]
          THEN <<TRUE, IF IsDict(data)
                       THEN D([Val(data) EXCEPT ![j] = <<Val(data)[j][1], r[2]>>])
                       ELSE L([Val(data) EXCEPT ![j] = r[2]])>>
          ELSE FindFirstBelow(data, j + 1, key, mode)

find_and_modify_keys_RE(data, key_to_find, mode) ==
  IF IsDict(data)
  THEN IF HasKey(data, key_to_find)
       THEN <<TRUE, ModifyKey(data, key_to_find, mode)>>
       ELSE FindFirstBelow(data, 1, key_to_find, mode)
  ELSE IF IsList(data) THEN FindFirstBelow(data, 1, key_to_find, mode)
  ELSE <<FALSE, data>>

\* the mutator that stops at the first occurrence, with the result of the
\* exhaustive one: <<number of appends, data>>
find_and_modify_keys_first(data, key_to_find, mode) ==
  LET r == find_and_modify_keys_RE(data, key_to_find, mode)
  IN <<IF r[1] THEN 1 ELSE 0, r[2]>>

(* find_and_modify_keys of Optional2.py: every occurrence; the key is      *)
(* appended to modified_keys once per occurrence.  The result is           *)
(* <<number of appends, data>>.                                            *)

RECURSIVE find_and_modify_keys_OE(_, _, _)
RECURSIVE ModifyAllBelow(_, _, _, _, _)

\* for sub_key in data / for item in data: recurse into every value
ModifyAllBelow(data, j, key, mode, count) ==
  IF j > Len(Val(data)) THEN <<count, data>>
  ELSE LET child == IF IsDict(data) THEN Val(data)[j][2] ELSE Val(data)[j]
           r == find_and_modify_keys_OE(child, key, mode)
           next == IF IsDict(data)
                   THEN D([Val(data) EXCEPT ![j] = <<Val(data)[j][1], r[2]>>])
                   ELSE L([Val(data) EXCEPT ![j] = r[2]])
       IN ModifyAllBelow(next, j + 1, key, mode, count + r[1])

find_and_modify_keys_OE(data, key_to_find, mode) ==
  IF IsDict(data)
  THEN IF HasKey(data, key_to_find)
       THEN ModifyAllBelow(ModifyKey(data, key_to_find, mode), 1, key_to_find, mode, 1)
       ELSE ModifyAllBelow(data, 1, key_to_find, mode, 0)
  ELSE IF IsList(data) THEN ModifyAllBelow(data, 1, key_to_find, mode, 0)
  ELSE <<0, data>>

----------------------------------------------------------------------------
(* What a path addresses (spec 4.2, tree-of-maps family): a plain segment  *)
(* addresses a mapping key, `name[index]` the element at position index    *)
(* (0..len-1) of the sequence bound to name, and a plain segment met at a  *)
(* sequence is tried on its elements in order, first match wins.  The      *)
(* answer is <<found, location>>, a location being the steps              *)
(* <<"key", k>> and <<"pos", p>> (p counted from 1) from the root.         *)

NotFound == <<FALSE, <<>> >>

RECURSIVE Resolve(_, _)
RECURSIVE ResolveItems(_, _, _)

ResolveItems(obj, j, parts) ==
  IF j > Len(Val(obj)) THEN NotFound
  ELSE LET r == Resolve(Val(obj)[j], parts) IN
       IF r[1] THEN <<TRUE, << <<"pos", j>> >> \o r[2]>>
       ELSE ResolveItems(obj, j + 1, parts)

Resolve(obj, parts) ==
  IF parts = <<>> THEN NotFound
  ELSE
    LET seg == Head(parts)
        rest == Tail(parts)
        name == SegName(seg)
    IN
    CASE SegKind(seg) = "index" ->
           IF /\ IsDict(obj) /\ HasKey(obj, name) /\ IsList(Get(obj, name))
              /\ SegIndex(seg) >= 0 /\ SegIndex(seg) < Len(Val(Get(obj, name)))
           THEN LET here == << <<"key", name>>, <<"pos", SegIndex(seg) + 1>> >> IN
                IF rest = <<>> THEN <<TRUE, here>>
                ELSE LET r == Resolve(Val(Get(obj, name))[SegIndex(seg) + 1], rest)
                     IN <<r[1], IF r[1] THEN here \o r[2] ELSE <<>> >>
           ELSE NotFound
      [] SegKind(seg) = "plain" ->
           IF IsDict(obj)
           THEN IF HasKey(obj, name)
                THEN IF rest = <<>> THEN <<TRUE, << <<"key", name>> >> >>
                     ELSE LET r == Resolve(Get(obj, name), rest)
                          IN <<r[1], IF r[1] THEN << <<"key", name>> >> \o r[2] ELSE <<>> >>
                ELSE NotFound
           ELSE IF IsList(obj) THEN ResolveItems(obj, 1, parts)
           ELSE NotFound
      [] OTHER -> NotFound

Present(doc, field_path) == Resolve(doc, PathParts(field_path))[1]
Location(doc, field_path) == Resolve(doc, PathParts(field_path))[2]

\* the value one step below v
Child(v, step) == IF step[1] = "key" THEN Get(v, step[2]) ELSE Val(v)[step[2]]

\* v with the value one step below replaced
WithChild(v, step, c) ==
  IF step[1] = "key" THEN SetKey(v, step[2], c)
  ELSE L([Val(v) EXCEPT ![step[2]] = c])

RECURSIVE ValueAt(_, _)
ValueAt(v, loc) == IF loc = <<>> THEN v ELSE ValueAt(Child(v, Head(loc)), Tail(loc))

\* v with exactly the key or the element at loc deleted
RECURSIVE DeleteAt(_, _)
DeleteAt(v, loc) ==
  IF Len(loc) = 1
  THEN IF loc[1][1] = "key" THEN DelKey(v, loc[1][2])
       ELSE L(RemoveAt(Val(v), loc[1][2]))
  ELSE WithChild(v, Head(loc), DeleteAt(Child(v, Head(loc)), Tail(loc)))

\* v with the marker stripped at loc: the key `commented-k` renamed back to
\* k, or the element `commented-<text>` replaced by <text>; text ranges
\* over the candidates.
RECURSIVE StripMarkerAt(_, _, _)
StripMarkerAt(v, loc, candidates) ==
  IF Len(loc) = 1
  THEN IF loc[1][1] = "key"
       THEN IF HasKey(v, Marker \o loc[1][2])
            THEN SetKey(DelKey(v, Marker \o loc[1][2]), loc[1][2],
                        Get(v, Marker \o loc[1][2]))
            ELSE v
       ELSE LET e == Val(v)[loc[1][2]] IN
            IF \E x \in candidates : e = S(Marker \o x)
            THEN L([Val(v) EXCEPT ![loc[1][2]] =
                      S(CHOOSE x \in candidates : e = S(Marker \o x))])
            ELSE v
  ELSE WithChild(v, Head(loc),
                 StripMarkerAt(Child(v, Head(loc)), Tail(loc), candidates))

----------------------------------------------------------------------------
(* Text.  The operators below read a text as the sequence of its           *)
(* characters: a string, or a sequence of path tokens.                     *)

IsPrefix(p, t) == Len(p) <= Len(t) /\ SubSeq(t, 1, Len(p)) = p
Contains(t, p) == \E k \in 0..(Len(t) - Len(p)) : SubSeq(t, k + 1, k + Len(p)) = p
Take(t, n) == SubSeq(t, 1, IF n < Len(t) THEN n ELSE Len(t))

\* seq with every occurrence of pat taken out, left to right (str.replace(pat, ''))
RECURSIVE ReplaceAll(_, _)
ReplaceAll(seq, pat) ==
  IF Len(seq) < Len(pat) \/ pat = <<>> THEN seq
  ELSE IF SubSeq(seq, 1, Len(pat)) = pat
       THEN ReplaceAll(SubSeq(seq, Len(pat) + 1, Len(seq)), pat)
       ELSE <<Head(seq)>> \o ReplaceAll(Tail(seq), pat)

Range(seq) == {seq[j] : j \in 1..Len(seq)}

Char(t, k) == SubSeq(t, k, k)
Drop(t, n) == SubSeq(t, n + 1, Len(t))

\* str.split(sep) for a separator of one character
RECURSIVE SplitFrom(_, _, _, _)
SplitFrom(t, sep, k, piece) ==
  IF k > Len(t) THEN <<piece>>
  ELSE IF Char(t, k) = sep THEN <<piece>> \o SplitFrom(t, sep, k + 1, "")
  ELSE SplitFrom(t, sep, k + 1, piece \o Char(t, k))

Split(t, sep) == SplitFrom(t, sep, 1, "")

Digits == "0123456789"
Letters == "ABCDEFGHIJKLMNOPQRSTUVWXYZabcdefghijklmnopqrstuvwxyz"
Whitespace == " \n\t\r"

IsCharOf(c, alphabet) == \E k \in 1..Len(alphabet) : Char(alphabet, k) = c
IsDigit(c) == IsCharOf(c, Digits)
DigitValue(c) == (CHOOSE k \in 1..Len(Digits) : Char(Digits, k) = c) - 1

\* \w of the re module
IsWordChar(c) == IsCharOf(c, Digits) \/ IsCharOf(c, Letters) \/ c = "_"

\* str.strip()
RECURSIVE LStrip(_)
LStrip(t) == IF t # "" /\ IsCharOf(Char(t, 1), Whitespace) THEN LStrip(Drop(t, 1)) ELSE t
RECURSIVE RStrip(_)
RStrip(t) ==
  IF t # "" /\ IsCharOf(Char(t, Len(t)), Whitespace) THEN RStrip(SubSeq(t, 1, Len(t) - 1)) ELSE t
Strip(t) == RStrip(LStrip(t))

\* str.isdigit()
IsDigitStr(t) == t # "" /\ \A k \in 1..Len(t) : IsDigit(Char(t, k))

\* the value of a run of digits with single underscores between them
RECURSIVE DigitsValue(_, _)
DigitsValue(t, acc) ==
  IF t = "" THEN acc
  ELSE IF Char(t, 1) = "_" THEN DigitsValue(Drop(t, 1), acc)
  ELSE DigitsValue(Drop(t, 1), 10 * acc + DigitValue(Char(t, 1)))

\* int(t): <<TRUE, n>>, or <<FALSE, 0>> where int raises ValueError.  int
\* takes surrounding whitespace, one sign, and digits that single
\* underscores may separate.
PyInt(t) ==
  LET u == Strip(t)
      signed == u # "" /\ Char(u, 1) \in {"+", "-"}
      body == IF signed THEN Drop(u, 1) ELSE u
      wellformed ==
        /\ body # ""
        /\ \A k \in 1..Len(body) : IsDigit(Char(body, k)) \/ Char(body, k) = "_"
        /\ Char(body, 1) # "_" /\ Char(body, Len(body)) # "_"
        /\ \A k \in 1..(Len(body) - 1) : ~(Char(body, k) = "_" /\ Char(body, k + 1) = "_")
  IN IF ~wellformed THEN <<FALSE, 0>>
     ELSE <<TRUE, IF signed /\ Char(u, 1) = "-" THEN 0 - DigitsValue(body, 0)
                  ELSE DigitsValue(body, 0)>>

\* seq[i] = v for a Python index i that is in range
PySet(seq, i, v) == [seq EXCEPT ![PyPos(Len(seq), i)] = v]

\* a Python index i is in range for a list of n items
InRange(n, i) == i < n /\ i >= 0 - n

----------------------------------------------------------------------------
(* The delimited-text mutators.  An interchange is a string; a mode other  *)
(* than "remove" and "comment" changes nothing.                            *)

\* the element after the mutation of process_edi_field_removal's simple
\* branch and of process_edifact_field_removal
MarkElement(element, mode) ==
  CASE mode = "remove" -> ""
    [] mode = "comment" -> Marker \o element
    [] OTHER -> element

\* field_path[len(segment_id):] without one leading "."
FieldPart(field_path, segment_id) ==
  LET rest == Drop(field_path, Len(segment_id))
  IN IF IsPrefix(".", rest) THEN Drop(rest, 1) ELSE rest

\* int(field_part) if field_part.isdigit() else int(field_part[:2])
ElementNum(field_part) ==
  IF IsDigitStr(field_part) THEN PyInt(field_part) ELSE PyInt(Take(field_part, 2))

\* the segment line after the composite branch: ValueError and IndexError
\* leave the line as it was read
EdiComposite(line, elements, field_part, mode) ==
  LET nums == Split(field_part, ".")
      element_num == PyInt(nums[1])
      subelement_num == PyInt(nums[2])
  IN
  IF Len(nums) # 2 \/ ~element_num[1] \/ ~subelement_num[1] THEN line
  ELSE IF ~(Len(elements) > element_num[2]) THEN JoinStr(elements, "*")
  ELSE IF ~InRange(Len(elements), element_num[2]) THEN line
  ELSE
    LET element == elements[PyPos(Len(elements), element_num[2])]
        subelements == IF Contains(element, ":") THEN Split(element, ":") ELSE <<element>>
        at == subelement_num[2] - 1
    IN
    IF ~(Len(subelements) > at) THEN JoinStr(elements, "*")
    ELSE IF ~InRange(Len(subelements), at) THEN line
    ELSE JoinStr(PySet(elements, element_num[2],
                    JoinStr(PySet(subelements, at,
                               MarkElement(subelements[PyPos(Len(subelements), at)], mode)),
                         ":")),
              "*")

\* the segment line after the simple branch
EdiSimple(line, elements, field_part, mode, sep) ==
  LET element_num == ElementNum(field_part) IN
  IF ~element_num[1] THEN line
  ELSE IF ~(Len(elements) > element_num[2]) THEN JoinStr(elements, sep)
  ELSE IF ~InRange(Len(elements), element_num[2]) THEN line
  ELSE JoinStr(PySet(elements, element_num[2],
                  MarkElement(elements[PyPos(Len(elements), element_num[2])], mode)),
            sep)

\* one pass of process_edi_field_removal's loop
EdiLine(line, field_path, mode) ==
  IF Strip(line) = "" \/ ~Contains(line, "~") THEN line
  ELSE
    LET elements == Split(line, "*")
        segment_id == elements[1]
    IN
    IF ~IsPrefix(segment_id, field_path) THEN line
    ELSE LET field_part == FieldPart(field_path, segment_id) IN
         IF Contains(field_part, ".")
         THEN EdiComposite(line, elements, field_part, mode)
         ELSE EdiSimple(line, elements, field_part, mode, "*")

process_edi_field_removal(edi_content, field_path, mode) ==
  LET lines == Split(edi_content, "\n")
  IN JoinStr([k \in 1..Len(lines) |-> EdiLine(lines[k], field_path, mode)], "\n")

\* one pass of process_edifact_field_removal's loop
EdifactLine(line, field_path, mode) ==
  IF Strip(line) = "" \/ ~Contains(line, "+") THEN line
  ELSE
    LET elements == Split(line, "+")
        segment_id == elements[1]
    IN
    IF ~IsPrefix(segment_id, field_path) THEN line
    ELSE EdiSimple(line, elements, FieldPart(field_path, segment_id), mode, "+")

process_edifact_field_removal(edifact_content, field_path, mode) ==
  LET lines == Split(edifact_content, "'")
  IN JoinStr([k \in 1..Len(lines) |-> EdifactLine(lines[k], field_path, mode)], "'")

\* re.sub(r'(\w+)', lambda m: ' ' * len(m.group(1)), line)
RECURSIVE BlankWords(_)
BlankWords(line) ==
  IF line = "" THEN ""
  ELSE (IF IsWordChar(Char(line, 1)) THEN " " ELSE Char(line, 1)) \o BlankWords(Drop(line, 1))

\* one pass of process_idoc_field_removal's loop
IdocLine(line, field_path, mode) ==
  IF ~(IsPrefix("E1", line) \/ IsPrefix("E2", line)) THEN line
  ELSE LET segment_type == Take(line, 6) IN
       IF ~IsPrefix(segment_type, field_path) THEN line
       ELSE CASE mode = "remove" -> BlankWords(line)
              [] mode = "comment" -> "* commented: " \o line
              [] OTHER -> line

process_idoc_field_removal(idoc_content, field_path, mode) ==
  LET lines == Split(idoc_content, "\n")
  IN JoinStr([k \in 1..Len(lines) |-> IdocLine(lines[k], field_path, mode)], "\n")

----------------------------------------------------------------------------
(* The XML mutator.  A document that parses is <<"xml", root>>, an element *)
(* being <<"elem", tag, text, children>> (text "" for None) and a comment  *)
(* <<"comment", text>>; any other content makes ET.fromstring raise        *)
(* ParseError.  ET.fromstring gives every element an identity: here its    *)
(* number in document order, <<"elem", id, tag, text, children>>.          *)

XmlParses(xml_content) == xml_content[1] = "xml"

RECURSIVE XmlSize(_)
RECURSIVE XmlSizes(_)
XmlSize(node) == IF node[1] = "elem" THEN 1 + XmlSizes(node[4]) ELSE 1
XmlSizes(nodes) == IF nodes = <<>> THEN 0 ELSE XmlSize(Head(nodes)) + XmlSizes(Tail(nodes))

\* ET.fromstring
RECURSIVE Numbered(_, _)
RECURSIVE NumberedAll(_, _)
Numbered(node, n) ==
  IF node[1] = "elem" THEN <<"elem", n, node[2], node[3], NumberedAll(node[4], n + 1)>>
  ELSE node
NumberedAll(nodes, n) ==
  IF nodes = <<>> THEN <<>>
  ELSE <<Numbered(Head(nodes), n)>> \o NumberedAll(Tail(nodes), n + XmlSize(Head(nodes)))

\* ET.tostring, as the tree it writes
RECURSIVE Unnumbered(_)
Unnumbered(node) ==
  IF node[1] = "elem"
  THEN <<"elem", node[3], node[4], [k \in 1..Len(node[5]) |-> Unnumbered(node[5][k])]>>
  ELSE node

IsElem(node) == node[1] = "elem"

\* the elements below node in document order, each with its parent:
\* <<id, tag, text, parent id>>
RECURSIVE Below(_)
RECURSIVE BelowAll(_, _)
Below(node) == IF IsElem(node) THEN BelowAll(node[5], node[2]) ELSE <<>>
BelowAll(nodes, parent) ==
  IF nodes = <<>> THEN <<>>
  ELSE (IF IsElem(Head(nodes))
        THEN << <<Head(nodes)[2], Head(nodes)[3], Head(nodes)[4], parent>> >>
               \o Below(Head(nodes))
        ELSE <<>>)
       \o BelowAll(Tail(nodes), parent)

\* the elements of a list that pass a test on the tag, in order
RECURSIVE WithTag(_, _)
WithTag(found_below, tag) ==
  IF found_below = <<>> THEN <<>>
  ELSE (IF tag \in {"", "*"} \/ Head(found_below)[2] = tag THEN <<Head(found_below)>> ELSE <<>>)
         \o WithTag(Tail(found_below), tag)

\* root.findall(f".//{tag}"): a path that ends in "/" gets "*" appended
XmlFindAll(root, tag) == WithTag(Below(root), tag)

\* root.find(f".//{tag}/.."): the parent of the first match, 0 for None
XmlFindParent(root, tag) ==
  LET matches == WithTag(Below(root), tag)
  IN IF matches = <<>> THEN 0 ELSE matches[1][4]

\* the children of the element numbered parent, <<>> when it has left the tree
RECURSIVE ChildrenOf(_, _)
RECURSIVE ChildrenOfAny(_, _)
ChildrenOf(node, parent) ==
  IF ~IsElem(node) THEN <<>>
  ELSE IF node[2] = parent THEN node[5]
  ELSE ChildrenOfAny(node[5], parent)
ChildrenOfAny(nodes, parent) ==
  IF nodes = <<>> THEN <<>>
  ELSE IF ChildrenOf(Head(nodes), parent) # <<>> THEN ChildrenOf(Head(nodes), parent)
  ELSE ChildrenOfAny(Tail(nodes), parent)

HasChild(root, parent, id) ==
  \E k \in 1..Len(ChildrenOf(root, parent)) :
    IsElem(ChildrenOf(root, parent)[k]) /\ ChildrenOf(root, parent)[k][2] = id

\* the children with the element numbered id taken out and, in its place,
\* what `put` holds
RECURSIVE Replaced(_, _, _)
Replaced(nodes, id, put) ==
  IF nodes = <<>> THEN <<>>
  ELSE IF IsElem(Head(nodes)) /\ Head(nodes)[2] = id THEN put \o Tail(nodes)
  ELSE <<Head(nodes)>> \o Replaced(Tail(nodes), id, put)

\* parent.remove(element), after parent.insert(index, comment) in comment mode
RECURSIVE XmlRemove(_, _, _, _)
XmlRemove(node, parent, id, put) ==
  IF ~IsElem(node) THEN node
  ELSE IF node[2] = parent
  THEN <<"elem", node[2], node[3], node[4], Replaced(node[5], id, put)>>
  ELSE <<"elem", node[2], node[3], node[4],
         [k \in 1..Len(node[5]) |-> XmlRemove(node[5][k], parent, id, put)]>>

\* ET.Comment(f" commented-{element.tag}: {element.text} ")
XmlComment(tag, text) ==
  <<"comment", " " \o Marker \o tag \o ": " \o (IF text = "" THEN "None" ELSE text) \o " ">>

\* `for element in elements`: <<outcome, root, modified>>, the outcome
\* "ValueError" when parent.remove(element) or list(parent).index(element)
\* does not find the element among the parent's children
RECURSIVE XmlLoop(_, _, _, _, _)
XmlLoop(root, elements, k, modified, mode) ==
  IF k > Len(elements) THEN <<"ok", root, modified>>
  ELSE
    LET element == elements[k]
        parent == XmlFindParent(root, element[2])
    IN
    IF parent = 0 THEN XmlLoop(root, elements, k + 1, modified, mode)
    ELSE IF mode \in {"remove", "comment"} /\ ~HasChild(root, parent, element[1])
    THEN <<"ValueError", root, modified>>
    ELSE XmlLoop(CASE mode = "remove" -> XmlRemove(root, parent, element[1], <<>>)
                   [] mode = "comment" ->
                        XmlRemove(root, parent, element[1],
                                  <<XmlComment(element[2], element[3])>>)
                   [] OTHER -> root,
                 elements, k + 1, TRUE, mode)

\* field_path.split('/')[-1]
LastStep(field_path) == Split(field_path, "/")[Len(Split(field_path, "/"))]

\* <<"ok", content>>, or <<"ValueError", content>> when the call raises
process_xml_field_removal(xml_content, field_path, mode) ==
  IF ~XmlParses(xml_content) THEN <<"ok", xml_content>>
  ELSE
    LET root == Numbered(xml_content[2], 1)
        r == XmlLoop(root, XmlFindAll(root, LastStep(field_path)), 1, FALSE, mode)
    IN
    IF r[1] # "ok" THEN <<r[1], xml_content>>
    ELSE IF r[3] THEN <<"ok", <<"xml", Unnumbered(r[2])>> >>
    ELSE <<"ok", xml_content>>

----------------------------------------------------------------------------
(* The generators.  A specification entry is <<name, details>> with        *)
(* details = <<kind, Source Occurs, Output Path, Output Element>>: kind is *)
(* "dict" for a mapping and "other" for any other JSON value; a key the    *)
(* mapping lacks reads as "" (the empty path for the two paths).           *)

EntryName(e) == e[1]
IsMapping(details) == details[1] = "dict"
SourceOccurs(details) == details[2]
OutputPath(details) == details[3]
OutputElement(details) == details[4]

ReadLimit == 100

\* detect_file_format(CONFIG["max_file"]); a file is <<extension, content>>,
\* the content of a text file being <<"text", string>>
detect_file_format(file) ==
  LET ext == file[1] IN
  CASE ext = ".json" -> "JSON"
    [] ext = ".xml" -> "XML"
    [] ext = ".edi" -> "EDI-X12"
    [] ext = ".txt" ->
         LET content == Take(file[2][2], ReadLimit) IN
         IF IsPrefix("UNA", content) \/ IsPrefix("UNB", content) THEN "EDIFACT"
         ELSE IF Contains(content, "ISA") \/ Contains(content, "GS") THEN "EDI-X12"
         ELSE IF \/ IsPrefix("E1", content)
                 \/ Contains(content, "E1EDK")
                 \/ Contains(content, "E1EDP")
         THEN "IDOC"
         ELSE "UNKNOWN"
    [] OTHER -> "UNKNOWN"

\* target_occurrence = "1...1" if test_type == "required" else "0...1"
TargetOccurrence(tt) == IF tt = "required" THEN "1...1" ELSE "0...1"

\* find_fields_by_occurrence: <<"ok", fields>>, a field being
\* <<element, path, output_element>>, or <<"AttributeError", ...>> for an
\* entry other than "format" whose value has no .get
RECURSIVE FindFieldsFrom(_, _, _, _)
FindFieldsFrom(spec, j, target_occurrence, fields) ==
  IF j > Len(spec) THEN <<"ok", fields>>
  ELSE LET element_name == spec[j][1]
           attributes == spec[j][2]
       IN
       IF element_name = "format"
       THEN FindFieldsFrom(spec, j + 1, target_occurrence, fields)
       ELSE IF ~IsMapping(attributes) THEN <<"AttributeError", fields>>
       ELSE IF SourceOccurs(attributes) = target_occurrence
       THEN FindFieldsFrom(spec, j + 1, target_occurrence,
              Append(fields, <<element_name, OutputPath(attributes),
                               OutputElement(attributes)>>))
       ELSE FindFieldsFrom(spec, j + 1, target_occurrence, fields)

find_fields_by_occurrence(spec, target_occurrence) ==
  FindFieldsFrom(spec, 1, target_occurrence, <<>>)

\* the JSON branch's field path, from Output Path and Output Element
JsonFieldPath(field) ==
  LET stripped == ReplaceAll(ReplaceAll(field[2], <<Slash, Key("JSON"), Slash>>),
                             <<Key("JSON"), Slash>>)
  IN IF field[3] # <<>>
     THEN (IF stripped # <<>> THEN stripped \o <<Dot>> \o field[3] ELSE field[3])
     ELSE stripped

\* a path of tokens as the string the specification file holds
RECURSIVE PathText(_)
PathText(tokens) ==
  IF tokens = <<>> THEN ""
  ELSE LET tok == Head(tokens) IN
       (IF IsSep(tok) THEN (IF tok = Dot THEN "." ELSE "/")
        ELSE CASE SegKind(tok) = "plain" -> SegName(tok)
               [] SegKind(tok) = "index" -> SegName(tok) \o "[" \o ToString(SegIndex(tok)) \o "]"
               [] OTHER -> SegName(tok) \o "[x]")
       \o PathText(Tail(tokens))

\* field['output_element'] or field['element']
XmlFieldPath(field) == IF field[3] # <<>> THEN PathText(field[3]) ELSE field[1]

\* one pass of the loop body up to the write: <<"write", content>> when a
\* file is to be written, <<"skip", content>> on `continue`, and
\* <<"error", content>> when the body raised and the handler went on
MutateSample(format, content, field, mode) ==
  CASE format = "JSON" ->
         LET r == process_json_field_removal(content, JsonFieldPath(field), mode) IN
         IF r[1] = "True" THEN <<"write", r[2]>>
         ELSE IF r[1] = "False" THEN <<"skip", content>>
         ELSE <<"error", content>>
    [] format = "XML" ->
         LET r == process_xml_field_removal(content, XmlFieldPath(field), mode) IN
         IF r[1] = "ok" THEN <<"write", r[2]>> ELSE <<"error", content>>
    [] format = "EDI-X12" ->
         <<"write", <<"text", process_edi_field_removal(content[2], field[1], mode)>> >>
    [] format = "EDIFACT" ->
         <<"write", <<"text", process_edifact_field_removal(content[2], field[1], mode)>> >>
    [] format = "IDOC" ->
         <<"write", <<"text", process_idoc_field_removal(content[2], field[1], mode)>> >>
    [] OTHER -> <<"skip", content>>

\* re.sub(r'[^\w\-_]', '_', element) on the element names of the model
SafeName(element) ==
  CASE element = "a.b" -> "a_b"
    [] element = "a b" -> "a_b"
    [] OTHER -> element

Upper(tt) == IF tt = "required" THEN "REQUIRED" ELSE "OPTIONAL"

\* CONFIG.get("output_prefix", f"MISS-{test_type.upper()}_")
PrefixFor(prefix, tt) == IF prefix[1] THEN prefix[2] ELSE "MISS-" \o Upper(tt) \o "_"

\* f"{output_prefix}{safe_field_name}_{i:03d}.{ext}"
UnifiedFilename(prefix, tt, element, n, ext) ==
  <<PrefixFor(prefix, tt), SafeName(element), n, ext>>

\* f"{CONFIG['output_prefix']}MissRE-{key}.json" and ...MissOE-...
ScriptFilename(prefix, g, key) ==
  <<prefix[2], IF g = "miss_re" THEN "MissRE-" ELSE "MissOE-", key, ".json">>

ManifestName(g) == IF g = "miss_re" THEN "_modified_keys.txt" ELSE "_optional_missing_keys.txt"

\* the cardinalities a script's `if` lets through
ScriptOccurrences(g) == IF g = "miss_re" THEN {"1...1", "1...*"} ELSE {"0...1", "0...*"}

\* Each iteration works on a copy of its own (json.loads(max_content),
\* json.loads(json.dumps(max_data))): the sample is what it was.
SampleAliased(sample, modified) == modified
SampleAfterIteration(sample, modified) == sample

----------------------------------------------------------------------------
(* The documents and paths the mutators are run on.                        *)

MaxItems == 2

Keys == {"a", "b"}
Scalars == {S("x"), N(1)}

ListsOf(V, n) == {L(items) : items \in UNION {[1..k -> V] : k \in 0..n}}

\* the dicts over keys K with values in V, in every insertion order
DictsOf(K, V) ==
  LET KeySeqs == {ks \in UNION {[1..k -> K] : k \in 0..Cardinality(K)} :
                    \A i, j \in 1..Len(ks) : i # j => ks[i] # ks[j]}
  IN UNION {{D([i \in 1..Len(ks) |-> <<ks[i], vs[i]>>]) : vs \in [1..Len(ks) -> V]}
              : ks \in KeySeqs}

Level1 == Scalars \cup ListsOf(Scalars, MaxItems) \cup DictsOf(Keys, {S("x")})
GenDocs == DictsOf(Keys, Level1)

GenSegs == {Key("a"), Key("b"), Idx("a", 0), Idx("a", 1), Idx("b", 0),
            Idx("a", -1), Idx("a", -3), BadIdx("a")}

\* "s", "s1.s2" and "/s1/s2/"
GenPaths == {<<s>> : s \in GenSegs}
              \cup {<<s[1], Dot, s[2]>> : s \in GenSegs \X {Key("a"), Key("b"), Idx("b", 0)}}
              \cup {<<Slash, Key("a"), Slash, Key("b"), Slash>>, <<Dot>>, <<>>}

\* the sample of spec 8: {"order": {"id": "123", "item": {"sku": "X1", "qty": "2"}}}
OrderDoc ==
  D(<< <<"order", D(<< <<"id", S("123")>>,
                       <<"item", D(<< <<"sku", S("X1")>>, <<"qty", S("2")>> >>)>> >>)>> >>)

\* a sequence of mappings, the key "b" in the second and the third
SeqOfMapsDoc ==
  D(<< <<"a", L(<< D(<< <<"c", S("x")>> >>), D(<< <<"b", N(1)>> >>),
                   D(<< <<"b", S("x")>>, <<"c", N(1)>> >>) >>)>> >>)

\* sequences inside the mappings of a sequence
NestedSeqDoc ==
  D(<< <<"a", L(<< D(<< <<"b", L(<<S("x"), N(1)>>)>> >>),
                   D(<< <<"b", L(<<D(<< <<"c", N(1)>> >>)>>)>> >>) >>)>>,
       <<"b", S("x")>> >>)

\* a key and its commented twin in one mapping, the key again one level down
TwinDoc ==
  D(<< <<"a", N(1)>>, <<"commented-a", S("x")>>, <<"b", D(<< <<"a", S("x")>> >>)>> >>)

\* a key inside the value of the same key, and once more beside it
SelfNestedDoc ==
  D(<< <<"a", D(<< <<"a", N(1)>>, <<"b", S("x")>> >>)>>,
       <<"c", L(<< D(<< <<"a", S("x")>> >>) >>)>> >>)

\* a sequence of sequences
SeqOfSeqsDoc == D(<< <<"a", L(<< L(<< D(<< <<"b", N(1)>> >>) >>), L(<<>>) >>)>> >>)

\* a sequence at the root
RootSeqDoc == L(<< D(<< <<"b", S("x")>> >>), D(<< <<"a", N(1)>>, <<"b", S("x")>> >>) >>)

ShapeDocs == {OrderDoc, SeqOfMapsDoc, NestedSeqDoc, TwinDoc, SeqOfSeqsDoc, RootSeqDoc}

ShapePaths == {
  <<Key("order"), Dot, Key("item"), Dot, Key("sku")>>,
  <<Slash, Key("order"), Slash, Key("item"), Slash, Key("qty")>>,
  <<Key("order"), Dot, Key("item"), Dot, Key("zzz")>>,
  <<Key("order"), Dot, Key("id"), Dot, Key("sku")>>,
  <<Key("order"), Dot, Key("item")>>,
  <<Key("a")>>, <<Key("b")>>, <<Key("c")>>,
  <<Key("a"), Dot, Key("b")>>, <<Key("a"), Dot, Key("c")>>, <<Key("b"), Dot, Key("a")>>,
  <<Idx("a", 0), Dot, Idx("b", 1)>>, <<Idx("a", 1), Dot, Idx("b", 0), Dot, Key("c")>>,
  <<Key("a"), Dot, Idx("b", 0)>>, <<Key("a"), Dot, Idx("b", 1)>>,
  <<Idx("a", 2)>>, <<Idx("a", 3)>>, <<Idx("a", -1)>>, <<Idx("a", -4)>>,
  <<Idx("a", 0), Dot, Key("b")>>, <<Idx("a", 2), Dot, Key("c")>>,
  <<Idx("a", -1), Dot, Key("b")>>, <<BadIdx("a"), Dot, Key("b")>> }

Modes == {"remove", "comment"}

TreeInputs == (GenDocs \X GenPaths) \cup (ShapeDocs \X ShapePaths)

----------------------------------------------------------------------------
(* SpecTree: process_json_field_removal applied to a document, then to the *)
(* document the first call left.                                           *)

NoResult == <<"none", D(<<>>)>>

\* the parts of the state a specification does not use
TreeIdle ==
  /\ tdoc = D(<<>>) /\ tpath = <<>> /\ tmode = "remove"
  /\ tres1 = NoResult /\ tres2 = NoResult /\ tpc = "idle"

GenIdle ==
  /\ gen = "none" /\ plan = <<>> /\ test_type = "" /\ modification_mode = ""
  /\ output_prefix = <<FALSE, "">> /\ spec_data = <<>>
  /\ max_file = <<"", D(<<>>)>> /\ sample0 = <<"", D(<<>>)>>
  /\ file_format = "" /\ target_fields = <<>> /\ field_no = 0
  /\ writes = <<>> /\ modified_keys = <<>> /\ found = FALSE
  /\ manifest = <<"none">> /\ selected = <<>> /\ gpc = "idle"

MutIdle ==
  /\ mfamily = "" /\ mtext = "" /\ mfield = "" /\ mmode = ""
  /\ mout = <<"none", "">> /\ mpc = "idle"

PipeIdle ==
  /\ pmode = "" /\ ppc = "idle" /\ success = FALSE /\ plog = <<>>
  /\ run_from = 0 /\ report = "" /\ choices = 0

HBIdle ==
  /\ extractor = "" /\ headers = <<>> /\ rows = <<>> /\ row_idx = 0
  /\ result = D(<<>>) /\ element_counter = D(<<>>) /\ added = <<>> /\ xpc = "idle"

InitTree ==
  /\ PipeIdle
  /\ \E in \in TreeInputs : tdoc = in[1] /\ tpath = in[2]
  /\ tmode \in Modes
  /\ tres1 = NoResult
  /\ tres2 = NoResult
  /\ tpc = "start"
  /\ GenIdle
  /\ HBIdle
  /\ MutIdle

CallOnce ==
  /\ tpc = "start"
  /\ tres1' = process_json_field_removal(tdoc, tpath, tmode)
  /\ tpc' = "once"
  /\ UNCHANGED <<pvars, tdoc, tpath, tmode, tres2, gvars, hvars, mvars>>

CallTwice ==
  /\ tpc = "once"
  /\ tres2' = process_json_field_removal(tres1[2], tpath, tmode)
  /\ tpc' = "twice"
  /\ UNCHANGED <<pvars, tdoc, tpath, tmode, tres1, gvars, hvars, mvars>>

NextTree == CallOnce \/ CallTwice

SpecTree == InitTree /\ [][NextTree]_vars

\* C6: in remove mode, for a path present in the document, the call returns
\* True and leaves the document with exactly the addressed key, or the
\* element at the addressed index, deleted; everything else is as it was.
C6_RemoveDeletesExactlyTarget ==
  (tpc # "start" /\ tmode = "remove" /\ Present(tdoc, tpath))
    => /\ tres1[1] = "True"
       /\ tres1[2] = DeleteAt(tdoc, Location(tdoc, tpath))

\* a removal through the sequence fallback that leaves a later match alone
C6_Witness ==
  /\ tpc = "once" /\ tmode = "remove" /\ Present(tdoc, tpath)
  /\ \E j \in 1..3 : Location(tdoc, tpath) = << <<"key", "a">>, <<"pos", j>>, <<"key", "b">> >>
  /\ tres1[1] = "True" /\ tres1[2] # tdoc

\* C4 as stated: for a path absent from the document both calls return
\* False and leave the document as it was.
C4_AbsentPathIsNoOpTwice ==
  (tpc = "twice" /\ ~Present(tdoc, tpath))
    => /\ tres1 = <<"False", tdoc>>
       /\ tres2 = <<"False", tdoc>>

\* C5 as stated: in comment mode, for a path present in the document,
\* stripping the marker at the addressed place gives back the original
\* document (compared as Python compares: key order apart).
C5_CommentRoundTrip ==
  (tpc # "start" /\ tmode = "comment" /\ Present(tdoc, tpath))
    => /\ tres1[1] = "True"
       /\ PyEq(StripMarkerAt(tres1[2], Location(tdoc, tpath),
                             {PyStr(ValueAt(tdoc, Location(tdoc, tpath)))}),
               tdoc)

\* the path has segments, each `name` or `name[index]` with an integer index
WellFormedPath(field_path) ==
  /\ PathParts(field_path) # <<>>
  /\ \A k \in 1..Len(PathParts(field_path)) :
       SegKind(PathParts(field_path)[k]) \in {"plain", "index"}

\* C14: for a well-formed path that the document does not hold (a segment
\* is absent, addresses a value that is not the container its form needs,
\* or carries an index that is no position 0..len-1 of the sequence), the
\* call returns False and leaves the document as it was.
C14_UnaddressableIsNoOp ==
  (tpc # "start" /\ WellFormedPath(tpath) /\ ~Present(tdoc, tpath))
    => tres1 = <<"False", tdoc>>

\* the claim of C14 for the paths without a negative index
NoNegativeIndex(field_path) ==
  \A k \in 1..Len(PathParts(field_path)) :
    SegKind(PathParts(field_path)[k]) = "index" => SegIndex(PathParts(field_path)[k]) >= 0

C14_HoldsFromZero == NoNegativeIndex(tpath) => C14_UnaddressableIsNoOp

\* v with the value at loc replaced
RECURSIVE ReplaceAt(_, _, _)
ReplaceAt(v, loc, c) ==
  IF loc = <<>> THEN c
  ELSE WithChild(v, Head(loc), ReplaceAt(Child(v, Head(loc)), Tail(loc), c))

\* the first step of loc that picks an element of a sequence for a plain
\* segment, with the segments left at that sequence: <<k, parts>>, k = 0
\* when the path is resolved without such a step
RECURSIVE Fallback(_, _, _)
Fallback(parts, loc, k) ==
  IF parts = <<>> \/ k > Len(loc) THEN <<0, <<>> >>
  ELSE IF SegKind(Head(parts)) = "index" THEN Fallback(Tail(parts), loc, k + 2)
  ELSE IF loc[k][1] = "pos" THEN <<k, parts>>
  ELSE Fallback(Tail(parts), loc, k + 1)

\* the path is in the document and its traversal meets a sequence with a
\* plain segment
ThroughSequence ==
  /\ tpc # "start"
  /\ Present(tdoc, tpath)
  /\ Fallback(PathParts(tpath), Location(tdoc, tpath), 1)[1] # 0

----------------------------------------------------------------------------
(* SpecGen: one run of a generator.  test_generator.py runs the passes of  *)
(* its plan ("required", "optional", or both in that order); Required.py   *)
(* and Optional2.py run their one loop over the specification.             *)

MaxFields == 2

Occurrences == {"1...1", "1...*", "0...1", "0...*"}

\* the entries a specification is drawn from: every cardinality for the
\* fields "a" and "b", the field of spec 8, two fields whose names differ
\* in a character that is no word character, a field with an index no list
\* has, a mapping without cardinality, and values that are no mappings
JsonEntries ==
  {<<"a", <<"dict", occ, <<>>, <<Key("a")>> >> >> : occ \in Occurrences}
    \cup {<<"b", <<"dict", occ, <<Slash, Key("JSON"), Slash, Key("a")>>, <<Key("b")>> >> >>
            : occ \in Occurrences}
    \cup {<<"sku", <<"dict", occ, <<Key("order"), Dot, Key("item")>>, <<Key("sku")>> >> >>
            : occ \in {"1...1", "0...1"}}
    \cup {<<"a b", <<"dict", "1...1", <<>>, <<Key("a")>> >> >>,
          <<"a.b", <<"dict", "0...1", <<>>, <<Key("b")>> >> >>}
    \cup {<<"c", <<"dict", "1...1", <<Idx("a", -4)>>, <<>> >> >>,
          <<"hierarchy", <<"dict", "", <<>>, <<>> >> >>,
          <<"format", <<"other", "", <<>>, <<>> >> >>,
          <<"total_elements", <<"other", "", <<>>, <<>> >> >>}

\* the specifications: entries in any order, names pairwise distinct (a
\* JSON object read by json.load holds a key once)
SpecsOver(entries) ==
  {sp \in UNION {[1..n -> entries] : n \in 0..MaxFields} :
     \A j, k \in 1..Len(sp) : j # k => sp[j][1] # sp[k][1]}

JsonSamples ==
  {<<".json", d>> : d \in {OrderDoc, SeqOfMapsDoc, TwinDoc, RootSeqDoc, SelfNestedDoc,
                           D(<< <<"a", L(<<N(1), S("x")>>)>>, <<"b", S("x")>> >>)}}

Prefixes == {<<TRUE, "P_">>, <<FALSE, "">>}

\* the fields of the samples that are not JSON: an element of an X12
\* segment the sample has, one of a segment it lacks, an EDIFACT element,
\* an IDOC segment, and two XML tags
TextNames == {"N402", "REF01", "UNH01", "E1EDK01", "item", "note"}

TextEntries == {<<name, <<"dict", occ, <<>>, <<>> >> >> : name \in TextNames, occ \in {"1...1", "0...1"}}

X12Text == "ISA*00*X~\nN4*A*B~"

\* <r><item>1</item><p><item>2<item>3</item></item></p><q><item>4</item></q><note/></r>
XmlRoot ==
  <<"elem", "r", "",
    << <<"elem", "item", "1", <<>> >>,
       <<"elem", "p", "", << <<"elem", "item", "2", << <<"elem", "item", "3", <<>> >> >> >> >> >>,
       <<"elem", "q", "", << <<"elem", "item", "4", <<>> >> >> >>,
       <<"elem", "note", "", <<>> >> >> >>

TextSamples ==
  { <<".edi", <<"text", X12Text>> >>,
    <<".txt", <<"text", X12Text>> >>,
    <<".txt", <<"text", "UNB+A+B'UNH+1+X'">> >>,
    <<".txt", <<"text", "E1EDK01 A B\nE2EDP01 X">> >>,
    <<".txt", <<"text", "N4*A*B~">> >>,
    <<".csv", <<"text", "N4*A*B~">> >>,
    <<".xml", <<"xml", XmlRoot>> >>,
    <<".xml", <<"xml", <<"elem", "r", "", << <<"elem", "note", "x", <<>> >> >> >> >> >>,
    <<".xml", <<"text", "<r><note>">> >> }

InitGen ==
  /\ PipeIdle
  /\ TreeIdle
  /\ HBIdle
  /\ MutIdle
  /\ \/ /\ gen = "unified"
        /\ plan \in {<<"required">>, <<"optional">>, <<"required", "optional">>}
        /\ \/ /\ output_prefix \in Prefixes
              /\ spec_data \in SpecsOver(JsonEntries)
              /\ max_file \in JsonSamples
           \/ /\ output_prefix = <<FALSE, "">>
              /\ spec_data \in SpecsOver(TextEntries)
              /\ max_file \in TextSamples
     \/ /\ gen = "miss_re" /\ plan = <<"required">> /\ output_prefix = <<TRUE, "P_">>
        /\ spec_data \in SpecsOver(JsonEntries)
        /\ max_file \in JsonSamples
     \/ /\ gen = "miss_oe" /\ plan = <<"optional">> /\ output_prefix = <<TRUE, "P_">>
        /\ spec_data \in SpecsOver(JsonEntries)
        /\ max_file \in JsonSamples
  /\ test_type = ""
  /\ modification_mode \in Modes
  /\ sample0 = max_file
  /\ file_format = ""
  /\ target_fields = <<>>
  /\ field_no = 0
  /\ writes = <<>>
  /\ modified_keys = <<>>
  /\ found = FALSE
  /\ manifest = <<"none">>
  /\ selected = <<>>
  /\ gpc = "ready"

\* generate_test_files(test_type) up to its loop: load, detect, select.  A
\* specification entry without .get ends the call with AttributeError.
UnifiedStart ==
  /\ gen = "unified" /\ gpc = "ready" /\ plan # <<>>
  /\ test_type' = Head(plan)
  /\ plan' = Tail(plan)
  /\ file_format' = detect_file_format(max_file)
  /\ LET r == find_fields_by_occurrence(spec_data, TargetOccurrence(Head(plan))) IN
     IF r[1] = "ok"
     THEN target_fields' = r[2] /\ field_no' = 1 /\ gpc' = "loop"
     ELSE target_fields' = <<>> /\ field_no' = 0 /\ gpc' = "crashed"
  /\ selected' = <<>>
  /\ UNCHANGED <<pvars, tvars, hvars, mvars, gen, modification_mode, output_prefix, spec_data, max_file,
                 sample0, writes, modified_keys, found, manifest>>

\* one iteration of generate_test_files' loop
UnifiedField ==
  /\ gen = "unified" /\ gpc = "loop" /\ field_no <= Len(target_fields)
  /\ LET field == target_fields[field_no]
         r == MutateSample(file_format, max_file[2], field, modification_mode)
     IN /\ writes' = IF r[1] = "write"
                     THEN Append(writes,
                            <<UnifiedFilename(output_prefix, test_type, field[1],
                                              field_no, max_file[1]), r[2], field[1]>>)
                     ELSE writes
        /\ max_file' = <<max_file[1], SampleAfterIteration(max_file[2], r[2])>>
        /\ selected' = Append(selected, field[1])
  /\ field_no' = field_no + 1
  /\ UNCHANGED <<pvars, tvars, hvars, mvars, gen, plan, test_type, modification_mode, output_prefix,
                 spec_data, sample0, file_format, target_fields, modified_keys,
                 found, manifest, gpc>>

\* the loop is over: generate_test_files prints its summary and returns
UnifiedFinish ==
  /\ gen = "unified" /\ gpc = "loop" /\ field_no > Len(target_fields)
  /\ gpc' = "ready"
  /\ UNCHANGED <<pvars, tvars, hvars, mvars, gen, plan, test_type, modification_mode, output_prefix,
                 spec_data, max_file, sample0, file_format, target_fields,
                 field_no, writes, modified_keys, found, manifest, selected>>

\* modify_json_and_generate_files up to its loop
ScriptStart ==
  /\ gen \in {"miss_re", "miss_oe"} /\ gpc = "ready" /\ plan # <<>>
  /\ test_type' = Head(plan)
  /\ plan' = Tail(plan)
  /\ modified_keys' = <<>>
  /\ found' = FALSE
  /\ field_no' = 1
  /\ gpc' = "loop"
  /\ selected' = <<>>
  /\ UNCHANGED <<pvars, tvars, hvars, mvars, gen, modification_mode, output_prefix, spec_data, max_file,
                 sample0, file_format, target_fields, writes, manifest>>

\* one iteration of `for key, details in spec_data.items()`
ScriptField ==
  /\ gen \in {"miss_re", "miss_oe"} /\ gpc = "loop" /\ field_no <= Len(spec_data)
  /\ LET key == spec_data[field_no][1]
         details == spec_data[field_no][2]
         chosen == IsMapping(details) /\ SourceOccurs(details) \in ScriptOccurrences(gen)
         re == find_and_modify_keys_RE(max_file[2], key, modification_mode)
         oe == find_and_modify_keys_OE(max_file[2], key, modification_mode)
         keys_after == IF ~chosen THEN modified_keys
                       ELSE IF gen = "miss_re"
                       THEN (IF re[1] THEN Append(modified_keys, key) ELSE modified_keys)
                       ELSE modified_keys \o [n \in 1..oe[1] |-> key]
         hit == chosen /\ (IF gen = "miss_re" THEN re[1] ELSE key \in Range(keys_after))
         modified_data == IF gen = "miss_re" THEN re[2] ELSE oe[2]
     IN /\ selected' = IF chosen THEN Append(selected, key) ELSE selected
        /\ modified_keys' = keys_after
        /\ found' = (found \/ hit)
        /\ writes' = IF hit
                     THEN Append(writes, <<ScriptFilename(output_prefix, gen, key),
                                           modified_data, key>>)
                     ELSE writes
        /\ max_file' = IF chosen
                       THEN <<max_file[1], SampleAfterIteration(max_file[2], modified_data)>>
                       ELSE max_file
  /\ field_no' = field_no + 1
  /\ UNCHANGED <<pvars, tvars, hvars, mvars, gen, plan, test_type, modification_mode, output_prefix,
                 spec_data, sample0, file_format, target_fields, manifest, gpc>>

\* after the loop: the log of modified keys, if anything was found
ScriptFinish ==
  /\ gen \in {"miss_re", "miss_oe"} /\ gpc = "loop" /\ field_no > Len(spec_data)
  /\ manifest' = IF found THEN <<"written", ManifestName(gen), modified_keys>>
                 ELSE manifest
  /\ gpc' = "ready"
  /\ UNCHANGED <<pvars, tvars, hvars, mvars, gen, plan, test_type, modification_mode, output_prefix,
                 spec_data, max_file, sample0, file_format, target_fields,
                 field_no, writes, modified_keys, found, selected>>

NextGen == UnifiedStart \/ UnifiedField \/ UnifiedFinish
             \/ ScriptStart \/ ScriptField \/ ScriptFinish

SpecGen == InitGen /\ [][NextGen]_vars

\* the run is over: every pass of the plan has returned
RunDone == gpc = "ready" /\ plan = <<>> /\ test_type # ""

\* the mapping entries of the specification whose cardinality is in occs,
\* by name, in specification order
RECURSIVE NamesWith(_, _)
NamesWith(spec, occs) ==
  IF spec = <<>> THEN <<>>
  ELSE (IF IsMapping(Head(spec)[2]) /\ SourceOccurs(Head(spec)[2]) \in occs
        THEN <<Head(spec)[1]>> ELSE <<>>) \o NamesWith(Tail(spec), occs)

\* the cardinalities of an occurrence class (spec 4.3)
ClassOf(tt) == IF tt = "required" THEN {"1...1", "1...*"} ELSE {"0...1", "0...*"}

\* some mapping of the document, at any depth, has the key
RECURSIVE KeyOccurs(_, _)
KeyOccurs(v, key) ==
  \/ IsDict(v) /\ (HasKey(v, key) \/ \E j \in 1..Len(Val(v)) : KeyOccurs(Val(v)[j][2], key))
  \/ IsList(v) /\ \E j \in 1..Len(Val(v)) : KeyOccurs(Val(v)[j], key)

DetailsOf(name) == (CHOOSE e \in Range(spec_data) : e[1] = name)[2]

\* the content a generator gives the field's fixture when the field is
\* processed alone, on the sample as the run found it
FixtureAlone(name) ==
  CASE gen = "unified" ->
         MutateSample(detect_file_format(sample0), sample0[2],
                      <<name, OutputPath(DetailsOf(name)), OutputElement(DetailsOf(name))>>,
                      modification_mode)[2]
    [] gen = "miss_re" -> find_and_modify_keys_RE(sample0[2], name, modification_mode)[2]
    [] gen = "miss_oe" -> find_and_modify_keys_OE(sample0[2], name, modification_mode)[2]

C3_NoNoOpFixture ==
  gen = "unified" => \A w \in 1..Len(writes) : writes[w][2] # sample0[2]

\* C2 as stated: a pass selects exactly the fields of its occurrence class
\* (required: 1...1 and 1...*; optional: 0...1 and 0...*), in the unified
\* generator and in both scripts.
C2_SelectsOccurrenceClass ==
  (gpc = "ready" /\ test_type # "") => selected = NamesWith(spec_data, ClassOf(test_type))

ManifestLines == IF manifest[1] = "written" THEN manifest[3] ELSE <<>>

\* the names of the class that occur as a key in the sample, in
\* specification order
RECURSIVE PresentNames(_, _)
PresentNames(names, doc) ==
  IF names = <<>> THEN <<>>
  ELSE (IF KeyOccurs(doc, Head(names)) THEN <<Head(names)>> ELSE <<>>)
         \o PresentNames(Tail(names), doc)

\* C7 as stated: after a run of a script the manifest lists the names of
\* the requested class that are present in the sample, each once, in
\* specification order, and nothing else.
C7_ManifestListsPresentFieldsOnce ==
  (RunDone /\ gen \in {"miss_re", "miss_oe"})
    => ManifestLines = PresentNames(NamesWith(spec_data, ClassOf(test_type)), sample0[2])

\* C8 as stated: at the end of a run a manifest has been written if and
\* only if a fixture was written.
C8_ManifestIffFixture ==
  RunDone => ((manifest[1] = "written") <=> (writes # <<>>))

\* generate_test_files writes a fixture for the field when the field is
\* processed alone, on the sample as the run found it
WritesAlone(name) ==
  MutateSample(detect_file_format(sample0), sample0[2],
               <<name, OutputPath(DetailsOf(name)), OutputElement(DetailsOf(name))>>,
               modification_mode)[1] = "write"

\* a pass of generate_test_files is over and each field of its cardinality
\* that gets a fixture when processed alone has that fixture written
PassWroteEveryField ==
  \A j \in 1..Len(spec_data) :
    LET name == spec_data[j][1] IN
    (/\ name # "format"
     /\ IsMapping(spec_data[j][2])
     /\ SourceOccurs(spec_data[j][2]) = TargetOccurrence(test_type)
     /\ WritesAlone(name))
      => \E w \in 1..Len(writes) : writes[w][3] = name /\ writes[w][2] = FixtureAlone(name)

\* C13: no entry of the specification makes generate_test_files end with
\* an exception, and when a pass returns every field of the pass that can
\* be mutated has its fixture written, whatever the other entries hold.
C13_PerFieldErrorLocality ==
  gen = "unified" =>
    /\ gpc # "crashed"
    /\ (gpc = "ready" /\ test_type # "") => PassWroteEveryField

\* the claim of C13 for the specifications whose entries, "format" aside,
\* are all mappings
EveryEntryIsMapping ==
  \A j \in 1..Len(spec_data) : spec_data[j][1] = "format" \/ IsMapping(spec_data[j][2])

C13_LocalityAmongMappings == (gen = "unified" /\ EveryEntryIsMapping) => C13_PerFieldErrorLocality

\* the first mapping of the document that has the key, depth first (a
\* mapping before its values, the values in order): <<found, location>>
RECURSIVE FirstHolder(_, _)
RECURSIVE FirstHolderBelow(_, _, _)
FirstHolderBelow(v, j, key) ==
  IF j > Len(Val(v)) THEN NotFound
  ELSE LET step == IF IsDict(v) THEN <<"key", Val(v)[j][1]>> ELSE <<"pos", j>>
           r == FirstHolder(Child(v, step), key)
       IN IF r[1] THEN <<TRUE, <<step>> \o r[2]>> ELSE FirstHolderBelow(v, j + 1, key)

FirstHolder(v, key) ==
  IF IsDict(v) /\ HasKey(v, key) THEN <<TRUE, <<>> >>
  ELSE IF IsDict(v) \/ IsList(v) THEN FirstHolderBelow(v, 1, key)
  ELSE NotFound

\* mapping m2 is mapping m with the key removed (mode remove) or renamed to
\* its commented name (mode comment), every other entry of m as it was
OnlyKeyModified(m, m2, key, mode) ==
  /\ IsDict(m2)
  /\ ~HasKey(m2, key)
  /\ \A i \in 1..Len(Val(m)) :
       Val(m)[i][1] # key => /\ HasKey(m2, Val(m)[i][1])
                             /\ Get(m2, Val(m)[i][1]) = Val(m)[i][2]
  /\ mode = "remove" => Len(Val(m2)) = Len(Val(m)) - 1
  /\ mode = "comment" => /\ HasKey(m2, Marker \o key)
                         /\ Get(m2, Marker \o key) = Get(m, key)
                         /\ Len(Val(m2)) = Len(Val(m))

\* document after is document before with the first occurrence of the key
\* modified and nothing else
FirstOccurrenceOnly(before, after, key, mode) ==
  LET loc == FirstHolder(before, key)[2] IN
  /\ after = ReplaceAt(before, loc, ValueAt(after, loc))
  /\ OnlyKeyModified(ValueAt(before, loc), ValueAt(after, loc), key, mode)

\* C22: Required.py's find_and_modify_keys returns True (a fixture is
\* written for the key) exactly when the key occurs in the sample, and the
\* fixture is the sample with the first occurrence of the key, depth first,
\* removed or renamed, every other occurrence and the rest of the document
\* unchanged.
C22_FirstOccurrenceOnly ==
  gen = "miss_re" =>
    /\ \A w \in 1..Len(writes) :
         /\ KeyOccurs(sample0[2], writes[w][3])
         /\ FirstOccurrenceOnly(sample0[2], writes[w][2], writes[w][3], modification_mode)
    /\ \A s \in 1..Len(selected) :
         KeyOccurs(sample0[2], selected[s])
           => \E w \in 1..Len(writes) : writes[w][3] = selected[s]

\* the mapping of the first occurrence already has the key's commented name
TwinAtFirst(doc, key) ==
  /\ FirstHolder(doc, key)[1]
  /\ HasKey(ValueAt(doc, FirstHolder(doc, key)[2]), Marker \o key)

\* the claim of C22 for the runs that do not rename a key onto an entry
\* its mapping already has
C22_HoldsWithoutTwin ==
  (modification_mode = "comment"
     => \A s \in 1..Len(selected) : ~TwinAtFirst(sample0[2], selected[s]))
    => C22_FirstOccurrenceOnly

\* the number of mappings of the document, at any depth, that have the key
RECURSIVE CountHolders(_, _)
RECURSIVE CountHoldersFrom(_, _, _)
CountHoldersFrom(v, j, key) ==
  IF j > Len(Val(v)) THEN 0
  ELSE CountHolders(IF IsDict(v) THEN Val(v)[j][2] ELSE Val(v)[j], key)
         + CountHoldersFrom(v, j + 1, key)

CountHolders(v, key) ==
  IF IsDict(v) THEN (IF HasKey(v, key) THEN 1 ELSE 0) + CountHoldersFrom(v, 1, key)
  ELSE IF IsList(v) THEN CountHoldersFrom(v, 1, key)
  ELSE 0

\* C23: after Optional2.py's find_and_modify_keys no mapping of the
\* document, at any depth, has the target key, and a fixture is written for
\* a key of the pass exactly when the key occurred in the sample.
C23_ExhaustiveAndIffOccurs ==
  gen = "miss_oe" =>
    /\ \A w \in 1..Len(writes) :
         /\ ~KeyOccurs(writes[w][2], writes[w][3])
         /\ KeyOccurs(sample0[2], writes[w][3])
    /\ \A s \in 1..Len(selected) :
         KeyOccurs(sample0[2], selected[s])
           => \E w \in 1..Len(writes) : writes[w][3] = selected[s]

\* a fixture of Optional2.py, comment mode, for a key the sample has in
\* three mappings, one of them inside the value of the renamed key
C23_Witness ==
  /\ gen = "miss_oe" /\ modification_mode = "comment"
  /\ \E w \in 1..Len(writes) :
       /\ CountHolders(sample0[2], writes[w][3]) = 3
       /\ HasKey(sample0[2], writes[w][3])
       /\ KeyOccurs(Get(sample0[2], writes[w][3]), writes[w][3])
       /\ CountHolders(writes[w][2], Marker \o writes[w][3]) = 3

\* C24: over the passes of one run (required, then optional, under one
\* configuration) no two distinct fields are written to the same filename.
C24_NoFilenameCollision ==
  \A i, j \in 1..Len(writes) :
    writes[i][3] # writes[j][3] => writes[i][1] # writes[j][1]

\* the claim of C24 for the runs of the unified generator whose prefix is
\* the default of the pass, and for the two scripts
C24_HoldsWithDefaultPrefix ==
  (gen = "unified" => ~output_prefix[1]) => C24_NoFilenameCollision

----------------------------------------------------------------------------
(* The extractors of SPEC_TO_JSON.  A sheet is its headers and its rows of *)
(* cells (strings: process_excel reads with dtype=str and fills the gaps   *)
(* with ""); the hierarchy is a dict as above, attribute values strings.   *)

\* U+2026, the one-character ellipsis of the sheets, written "^" here
Ellipsis == "^"

\* value.replace("…", "...")
RECURSIVE ReplaceEllipsis(_)
ReplaceEllipsis(t) ==
  IF t = "" THEN ""
  ELSE (IF Char(t, 1) = Ellipsis THEN "..." ELSE Char(t, 1)) \o ReplaceEllipsis(Drop(t, 1))

\* str.lower(), letter by letter
LowerOf ==
  ("A" :> "a") @@ ("B" :> "b") @@ ("C" :> "c") @@ ("D" :> "d") @@ ("E" :> "e") @@ ("F" :> "f")
    @@ ("G" :> "g") @@ ("H" :> "h") @@ ("I" :> "i") @@ ("J" :> "j") @@ ("K" :> "k") @@ ("L" :> "l")
    @@ ("M" :> "m") @@ ("N" :> "n") @@ ("O" :> "o") @@ ("P" :> "p") @@ ("Q" :> "q") @@ ("R" :> "r")
    @@ ("S" :> "s") @@ ("T" :> "t") @@ ("U" :> "u") @@ ("V" :> "v") @@ ("W" :> "w") @@ ("X" :> "x")
    @@ ("Y" :> "y") @@ ("Z" :> "z")

RECURSIVE Lower(_)
Lower(t) ==
  IF t = "" THEN ""
  ELSE (IF Char(t, 1) \in DOMAIN LowerOf THEN LowerOf[Char(t, 1)] ELSE Char(t, 1))
       \o Lower(Drop(t, 1))

\* the position of the first header with 'Source Occurs' in it, 0 for None
SourceOccursIdx(hs) ==
  IF \E k \in 1..Len(hs) : Contains(hs[k], "Source Occurs")
  THEN CHOOSE k \in 1..Len(hs) :
         /\ Contains(hs[k], "Source Occurs")
         /\ \A j \in 1..(k - 1) : ~Contains(hs[j], "Source Occurs")
  ELSE 0

\* extractor4: the cells of the input columns that count, in column order
RECURSIVE HierarchyParts(_, _, _)
HierarchyParts(row, k, last) ==
  IF k > last THEN <<>>
  ELSE LET value == Strip(row[k]) IN
       (IF value # "" /\ value # "nan" /\ Lower(value) \notin {"", "null"}
        THEN <<value>> ELSE <<>>)
       \o HierarchyParts(row, k + 1, last)

\* extractor2: the same with its own test
RECURSIVE ElementParts2(_, _, _)
ElementParts2(row, k, last) ==
  IF k > last THEN <<>>
  ELSE LET value == Strip(row[k]) IN
       (IF value # "" /\ value # "nan" THEN <<value>> ELSE <<>>)
       \o ElementParts2(row, k + 1, last)

\* extractor4: the attributes of a row, from the attribute columns on
RECURSIVE Attributes4(_, _, _)
Attributes4(hs, row, k) ==
  IF k > Len(hs) THEN <<>>
  ELSE LET clean_value == ReplaceEllipsis(Strip(row[k])) IN
       (IF Strip(row[k]) # "" /\ Lower(clean_value) \notin {"", "null", "nan"}
        THEN << <<hs[k], S(clean_value)>> >> ELSE <<>>)
       \o Attributes4(hs, row, k + 1)

\* extractor2: the attributes of a row
RECURSIVE Attributes2(_, _, _)
Attributes2(hs, row, k) ==
  IF k > Len(hs) THEN <<>>
  ELSE LET value == Strip(row[k]) IN
       (IF value # "" /\ value # "nan"
        THEN << <<hs[k], S(ReplaceEllipsis(value))>> >> ELSE <<>>)
       \o Attributes2(hs, row, k + 1)

\* d.update(pairs)
RECURSIVE Update(_, _)
Update(d, pairs) ==
  IF pairs = <<>> THEN d
  ELSE Update(SetKey(d, Head(pairs)[1], Head(pairs)[2]), Tail(pairs))

\* f"{'/'.join(hierarchy_path)}/{element_name}" if hierarchy_path else element_name
UniqueKey(hierarchy_path, element_name) ==
  IF hierarchy_path # <<>> THEN JoinStr(hierarchy_path, "/") \o "/" \o element_name
  ELSE element_name

\* f"{element_name}_occurrence_{n}" for n > 1
FinalElementName(element_name, n) ==
  IF n > 1 THEN element_name \o "_occurrence_" \o ToString(n) ELSE element_name

\* add_element from `current_level = result` on: <<TRUE, level>> with the
\* entry in place, <<FALSE, level>> where a level or the entry the path
\* leads to is a string and Python raises TypeError
RECURSIVE PlaceElement(_, _, _, _, _)
PlaceElement(current_level, hierarchy_path, final_element_name, attributes, source_path) ==
  IF ~IsDict(current_level) THEN <<FALSE, current_level>>
  ELSE IF hierarchy_path = <<>>
  THEN LET entry == IF HasKey(current_level, final_element_name)
                    THEN Get(current_level, final_element_name) ELSE D(<<>>)
       IN IF ~IsDict(entry) THEN <<FALSE, current_level>>
          ELSE <<TRUE, SetKey(current_level, final_element_name,
                              Update(SetKey(entry, "source_path", S(source_path)),
                                     attributes))>>
  ELSE LET level == Head(hierarchy_path)
           below == IF HasKey(current_level, level) THEN Get(current_level, level) ELSE D(<<>>)
           r == PlaceElement(below, Tail(hierarchy_path), final_element_name,
                             attributes, source_path)
       IN IF r[1] THEN <<TRUE, SetKey(current_level, level, r[2])>>
          ELSE <<FALSE, current_level>>

\* HierarchyBuilder.add_element: <<outcome, result, element_counter,
\* final_element_name>>, the outcome "ok" or "TypeError"
add_element(res, counter, hierarchy_path, element_name, attributes, source_path) ==
  LET unique_key == UniqueKey(hierarchy_path, element_name)
      n == IF HasKey(counter, unique_key) THEN Get(counter, unique_key) + 1 ELSE 1
      final_element_name == FinalElementName(element_name, n)
      r == PlaceElement(res, hierarchy_path, final_element_name, attributes, source_path)
  IN <<IF r[1] THEN "ok" ELSE "TypeError", r[2], SetKey(counter, unique_key, n),
       final_element_name>>

\* hierarchy_path[-1] and hierarchy_path[:-1]
Last(seq) == seq[Len(seq)]
Front(seq) == SubSeq(seq, 1, Len(seq) - 1)

----------------------------------------------------------------------------
(* SpecHB: one run of an extractor over the rows of a sheet.               *)

MaxRows == 3

Extractors == {"json", "edi_x12", "edifact", "idoc", "universal", "extractor2"}

\* three input columns, then the attribute columns; the second sheet has
\* no 'Source Occurs' column
WithOccurs == <<"L1", "L2", "L3", "Source Occurs", "Output Path">>
WithoutOccurs == <<"L1", "L2", "L3", "Occurs", "Output Path">>

\* the rows of the sheets: a path of three levels, the same path with "/"
\* inside a cell, a name three times over (once with the ellipsis, once
\* without attributes), a name that ends in _occurrence_2, an element below
\* a level and a row named as that level, a row whose input cells do not
\* count, and a level named as an attribute
SheetRows ==
  { <<"a", "b", "c", "1...1", "/JSON/a/b">>,
    <<"a/b", "", "c", "0...1", "">>,
    <<"x", "", "", "1...1", "">>,
    <<" x", "", "", "0^1", "">>,
    <<"x", "", "", "", "null">>,
    <<"x_occurrence_2", "", "", "1...*", "">>,
    <<"a", "", "x", "1...1", "">>,
    <<"a", "", "", "0...*", "">>,
    <<"", "nan", "null", "1...1", "">>,
    <<"x", "source_path", "y", "1...1", "">> }

\* the sheets of up to n rows; one row is enough to see what the lack of
\* the 'Source Occurs' column does
SheetsUpTo(n) ==
  LET RowsUpTo(m) == UNION {[1..k -> SheetRows] : k \in 0..m}
  IN ({WithOccurs} \X RowsUpTo(n)) \cup ({WithoutOccurs} \X RowsUpTo(1))

InitHB ==
  /\ PipeIdle
  /\ TreeIdle
  /\ GenIdle
  /\ MutIdle
  /\ extractor \in Extractors
  /\ \E sheet \in SheetsUpTo(MaxRows) : headers = sheet[1] /\ rows = sheet[2]
  /\ row_idx = 0
  /\ result = D(<<>>)
  /\ element_counter = D(<<>>)
  /\ added = <<>>
  /\ xpc = "start"

\* an extractor up to its loop: without a 'Source Occurs' column it
\* returns {}
ExtractStart ==
  /\ xpc = "start"
  /\ IF SourceOccursIdx(headers) = 0
     THEN xpc' = "done" /\ row_idx' = row_idx
     ELSE xpc' = "rows" /\ row_idx' = 1
  /\ UNCHANGED <<pvars, tvars, gvars, mvars, extractor, headers, rows, result, element_counter, added>>

\* the rest of a pass of the loop of an extractor of extractor4: the call
\* of add_element, which may raise
AddRow(hierarchy_path, element_name, attributes, source_path) ==
  LET r == add_element(result, element_counter, hierarchy_path, element_name,
                       attributes, source_path)
  IN /\ result' = r[2]
     /\ element_counter' = r[3]
     /\ IF r[1] = "ok"
        THEN /\ added' = Append(added,
                           <<row_idx, hierarchy_path, element_name, r[4],
                             Update(D(<< <<"source_path", S(source_path)>> >>), attributes)>>)
             /\ xpc' = xpc
        ELSE added' = added /\ xpc' = "crashed"
     /\ row_idx' = row_idx + 1
     /\ UNCHANGED <<pvars, tvars, gvars, mvars, extractor, headers, rows>>

\* the row is passed over
SkipRow ==
  /\ row_idx' = row_idx + 1
  /\ UNCHANGED <<pvars, tvars, gvars, mvars, extractor, headers, rows, result, element_counter, added, xpc>>

\* one pass of the loop of extractor4.extract_json_hierarchy
JsonRow ==
  /\ extractor = "json" /\ xpc = "rows" /\ row_idx <= Len(rows)
  /\ LET idx == SourceOccursIdx(headers)
         hierarchy_parts == HierarchyParts(rows[row_idx], 1, idx - 1)
     IN IF hierarchy_parts = <<>> THEN SkipRow
        ELSE AddRow(Front(hierarchy_parts), Last(hierarchy_parts),
                    Attributes4(headers, rows[row_idx], idx),
                    "/" \o JoinStr(hierarchy_parts, "/"))

\* one pass of the loop of extractor4.extract_edi_x12_hierarchy, which
\* extract_edifact_hierarchy calls
EdiRow ==
  /\ extractor \in {"edi_x12", "edifact"} /\ xpc = "rows" /\ row_idx <= Len(rows)
  /\ LET idx == SourceOccursIdx(headers)
         segment_parts == HierarchyParts(rows[row_idx], 1, idx - 1)
     IN IF segment_parts = <<>> THEN SkipRow
        ELSE AddRow(<<segment_parts[1]>>,
                    IF Len(segment_parts) > 1 THEN JoinStr(segment_parts, "_")
                    ELSE segment_parts[1],
                    Attributes4(headers, rows[row_idx], idx),
                    JoinStr(segment_parts, "*"))

\* one pass of the loop of extractor4.extract_idoc_hierarchy
IdocRow ==
  /\ extractor = "idoc" /\ xpc = "rows" /\ row_idx <= Len(rows)
  /\ LET idx == SourceOccursIdx(headers)
         idoc_parts == HierarchyParts(rows[row_idx], 1, idx - 1)
     IN IF idoc_parts = <<>> THEN SkipRow
        ELSE AddRow(<<idoc_parts[1]>>,
                    IF Len(idoc_parts) > 1 THEN JoinStr(idoc_parts, "_") ELSE idoc_parts[1],
                    Attributes4(headers, rows[row_idx], idx),
                    JoinStr(idoc_parts, "/"))

\* one pass of the loop of extractor4.extract_universal_hierarchy
UniversalRow ==
  /\ extractor = "universal" /\ xpc = "rows" /\ row_idx <= Len(rows)
  /\ LET idx == SourceOccursIdx(headers)
         element_parts == HierarchyParts(rows[row_idx], 1, idx - 1)
         attributes == Attributes4(headers, rows[row_idx], idx)
     IN IF element_parts = <<>> \/ attributes = <<>> THEN SkipRow
        ELSE AddRow(Front(element_parts), Last(element_parts), attributes,
                    "/" \o JoinStr(element_parts, "/"))

\* one pass of the loop of extractor2.extract_universal_hierarchy
Extractor2Row ==
  /\ extractor = "extractor2" /\ xpc = "rows" /\ row_idx <= Len(rows)
  /\ LET idx == SourceOccursIdx(headers)
         element_parts == ElementParts2(rows[row_idx], 1, idx - 1)
         element_name == IF Len(element_parts) = 1 THEN element_parts[1]
                         ELSE JoinStr(element_parts, "/")
         attributes == Attributes2(headers, rows[row_idx], idx)
     IN IF element_parts = <<>> \/ attributes = <<>> THEN SkipRow
        ELSE /\ result' = SetKey(result, element_name, D(attributes))
             /\ added' = Append(added, <<row_idx, <<>>, element_name, element_name,
                                         D(attributes)>>)
             /\ row_idx' = row_idx + 1
             /\ UNCHANGED <<pvars, tvars, gvars, mvars, extractor, headers, rows, element_counter, xpc>>

\* the loop is over: the extractor returns result
ExtractReturn ==
  /\ xpc = "rows" /\ row_idx > Len(rows)
  /\ xpc' = "done"
  /\ UNCHANGED <<pvars, tvars, gvars, mvars, extractor, headers, rows, row_idx, result,
                 element_counter, added>>

NextHB == ExtractStart \/ JsonRow \/ EdiRow \/ IdocRow \/ UniversalRow
            \/ Extractor2Row \/ ExtractReturn

SpecHB == InitHB /\ [][NextHB]_vars

\* how many of the rows stored up to the k-th have its hierarchy path and
\* its element name
OccurrenceNo(k) ==
  Cardinality({j \in 1..k : added[j][2] = added[k][2] /\ added[j][3] = added[k][3]})

\* C9 as stated: in the extractors built on HierarchyBuilder the n-th row
\* with a given hierarchy path and element name is stored under the plain
\* name for n = 1 and under name_occurrence_n after that; rows with the
\* same element name under another hierarchy path do not count.
C9_SuffixCountsPathAndName ==
  extractor # "extractor2"
    => \A k \in 1..Len(added) :
         added[k][4] = FinalElementName(added[k][3], OccurrenceNo(k))

\* the value the hierarchy holds at the end of a path of keys, or a string
\* no entry is equal to
RECURSIVE EntryAt(_, _)
EntryAt(level, keys) ==
  IF keys = <<>> THEN level
  ELSE IF IsDict(level) /\ HasKey(level, Head(keys))
  THEN EntryAt(Get(level, Head(keys)), Tail(keys))
  ELSE S("")

\* C10 as stated: the rows stored have pairwise distinct places in the
\* hierarchy (hierarchy path and key), and at the place of each the
\* hierarchy holds that row's entry, with nothing of another row in it.
C10_EveryRowOwnsItsEntry ==
  xpc # "crashed"
    => /\ \A j, k \in 1..Len(added) :
            j # k => <<added[j][2], added[j][4]>> # <<added[k][2], added[k][4]>>
       /\ \A k \in 1..Len(added) :
            EntryAt(result, Append(added[k][2], added[k][4])) = added[k][5]

\* the sum of the occurrence counters
RECURSIVE CounterTotal(_)
CounterTotal(pairs) ==
  IF pairs = <<>> THEN 0 ELSE Head(pairs)[2] + CounterTotal(Tail(pairs))

\* the row has hierarchy values; the row has an attribute value that counts
HasHierarchy(k) == HierarchyParts(rows[k], 1, SourceOccursIdx(headers) - 1) # <<>>
HasAttributes(k) == Attributes4(headers, rows[k], SourceOccursIdx(headers)) # <<>>

\* C21: in the extractors of extractor4 every entry of the hierarchy comes
\* from a row with an attribute value that counts, and the occurrence
\* counters have advanced once for each row read so far that has hierarchy
\* values and such an attribute value, and for no other row.
C21_RowsWithoutAttributesNotAdded ==
  extractor # "extractor2" =>
    /\ \A k \in 1..Len(added) : HasAttributes(added[k][1])
    /\ CounterTotal(Val(element_counter))
         = Cardinality({k \in 1..(row_idx - 1) : HasHierarchy(k) /\ HasAttributes(k)})

\* the claim of C21 in extract_universal_hierarchy
C21_HoldsInUniversal == extractor = "universal" => C21_RowsWithoutAttributesNotAdded

\* final_output of process_excel, the document it writes with json.dump
final_output(detected_format, hierarchy) ==
  D(<< <<"format", S(detected_format)>>,
       <<"total_elements", N(Len(Val(hierarchy)))>>,
       <<"hierarchy", hierarchy>> >>)

\* the formats detect_format can have answered when process_excel called
\* the extractor (an override of the configuration can name any format,
\* and extract_universal_hierarchy is also the fallback after an exception)
DetectedFormats(e) ==
  CASE e = "json" -> {"JSON"}
    [] e = "edi_x12" -> {"EDI-X12"}
    [] e = "edifact" -> {"EDIFACT"}
    [] e = "idoc" -> {"IDOC"}
    [] OTHER -> {"JSON", "EDI-X12", "EDIFACT", "IDOC", "XML"}

\* value.get(name, "") where the mapping holds a string, "" otherwise
TextOf(v, name) ==
  IF HasKey(v, name) /\ Tag(Get(v, name)) = "str" THEN Val(Get(v, name)) ELSE ""

\* json.load of the specification file and spec_data.items(): the entries
\* in file order, each value as the generators read it (a mapping with its
\* Source Occurs, or a value that is no mapping).  No top-level entry of
\* final_output has an Output Path or an Output Element: both read as "".
spec_items(doc) ==
  [j \in 1..Len(Val(doc)) |->
     <<Val(doc)[j][1],
       IF IsDict(Val(doc)[j][2])
       THEN <<"dict", TextOf(Val(doc)[j][2], "Source Occurs"), <<>>, <<>> >>
       ELSE <<"other", "", <<>>, <<>> >> >>]

\* the names find_fields_by_occurrence returns
FieldNames(fields) == {fields[j][1] : j \in 1..Len(fields)}

\* a Required pass over the specification: find_fields_by_occurrence
\* returns, and the field is in its list and passes the `if` of the MISS-RE
\* loop
SelectedByRequiredPass(spec, name) ==
  LET r == find_fields_by_occurrence(spec, TargetOccurrence("required")) IN
  /\ r[1] = "ok"
  /\ name \in FieldNames(r[2])
  /\ name \in Range(NamesWith(spec, ScriptOccurrences("miss_re")))

\* C25: on the document process_excel writes, a Required pass (the
\* selection of the unified generator and the loop of Required.py) ends
\* without an exception and selects every extracted field whose Source
\* Occurs is 1...1, at whatever depth of the hierarchy the field is.
C25_ExtractedFieldsAreSelected ==
  (xpc = "done" /\ extractor # "extractor2") =>
    \A f \in DetectedFormats(extractor) :
      LET spec == spec_items(final_output(f, result)) IN
      /\ find_fields_by_occurrence(spec, TargetOccurrence("required"))[1] = "ok"
      /\ \A k \in 1..Len(added) :
           TextOf(added[k][5], "Source Occurs") = "1...1"
             => SelectedByRequiredPass(spec, added[k][4])

\* what is left of C25 when the entries that are no mappings are taken out
\* of the document: the pass returns, and still no extracted field is
\* selected, the fields being below the entry "hierarchy"
C25_NothingSelectedBelowHierarchy ==
  (xpc = "done" /\ extractor # "extractor2") =>
    LET spec == SelectSeq(spec_items(final_output("JSON", result)),
                          LAMBDA e : IsMapping(e[2]))
        r == find_fields_by_occurrence(spec, TargetOccurrence("required"))
    IN /\ r[1] = "ok"
       /\ r[2] = <<>>
       /\ NamesWith(spec, ScriptOccurrences("miss_re")) = <<>>

----------------------------------------------------------------------------
(* SpecText: one call of the mutator that generate_test_files picks for    *)
(* the detected format, on an XML document or a delimited-text             *)
(* interchange.                                                            *)

MaxLines == 2

\* every sequence of at most n members of V
RECURSIVE SeqsUpTo(_, _)
SeqsUpTo(V, n) ==
  IF n = 0 THEN {<<>>}
  ELSE SeqsUpTo(V, n - 1) \cup {Append(q, v) : q \in SeqsUpTo(V, n - 1), v \in V}

EdiLines == {"N4*A*B~", "N4*A:B*C~", "N40*A*B~", "*A*B~", "ST*1*2~", "", "N4*A*B"}

EdiPaths ==
  {"N401", "N402", "N402.1", "N401.2", "N402.0", "N403", "N400", "N4-1", "N4.x",
   "N401.1.1", "N402.-1", "N4", "ST02", "N40", "", "02", "N402x", "N4002"}

EdifactLines == {"UNH+1+X", "UNB+A+B:C", "UN+A+B", "+A+B", "UNH", ""}

EdifactPaths ==
  {"UNH01", "UNH02", "UNB02", "UNH03", "UNH00", "UNH-1", "UNHx", "UN01", "", "01", "UNH"}

IdocLines ==
  {"E1EDK01 A B_1", "E1EDK02 C", "E2EDP01 X-Y", "Z1ABC 1", "E1EDK", "", " E1EDK01 A"}

IdocPaths ==
  {"E1EDK01", "E1EDK02", "E1EDK0", "E1EDK", "E1EDK01-BELNR", "E2EDP01", "", "E1", "Z1ABC"}

\* <a>1</a>, <b/>, <p><a>2</a></p>, <a>3<a>4</a></a>, <p><b>5</b></p>
XmlParts ==
  { <<"elem", "a", "1", <<>> >>,
    <<"elem", "b", "", <<>> >>,
    <<"elem", "p", "", << <<"elem", "a", "2", <<>> >> >> >>,
    <<"elem", "a", "3", << <<"elem", "a", "4", <<>> >> >> >>,
    <<"elem", "p", "", << <<"elem", "b", "5", <<>> >> >> >> }

XmlPaths == {"a", "b", "p", "z", "x/a", "", "*"}

TextInputs ==
  ({"EDI-X12"} \X {JoinStr(q, "\n") : q \in SeqsUpTo(EdiLines, MaxLines)} \X EdiPaths)
  \cup ({"EDIFACT"} \X {JoinStr(q, "'") : q \in SeqsUpTo(EdifactLines, MaxLines)}
          \X EdifactPaths)
  \cup ({"IDOC"} \X {JoinStr(q, "\n") : q \in SeqsUpTo(IdocLines, MaxLines)} \X IdocPaths)
  \cup ({"XML"} \X ({<<"xml", <<"elem", "r", "", q>> >> : q \in SeqsUpTo(XmlParts, MaxLines)}
                      \cup {<<"text", "<r><a>">>})
          \X XmlPaths)

InitText ==
  /\ PipeIdle
  /\ TreeIdle
  /\ GenIdle
  /\ HBIdle
  /\ \E input \in TextInputs, mode \in Modes :
       /\ mfamily = input[1]
       /\ mtext = input[2]
       /\ mfield = input[3]
       /\ mmode = mode
  /\ mout = <<"none", "">>
  /\ mpc = "start"

CallXml ==
  /\ mpc = "start"
  /\ mfamily = "XML"
  /\ mout' = process_xml_field_removal(mtext, mfield, mmode)
  /\ mpc' = "called"
  /\ UNCHANGED <<pvars, tvars, gvars, hvars, mfamily, mtext, mfield, mmode>>

CallEdi ==
  /\ mpc = "start"
  /\ mfamily = "EDI-X12"
  /\ mout' = <<"ok", process_edi_field_removal(mtext, mfield, mmode)>>
  /\ mpc' = "called"
  /\ UNCHANGED <<pvars, tvars, gvars, hvars, mfamily, mtext, mfield, mmode>>

CallEdifact ==
  /\ mpc = "start"
  /\ mfamily = "EDIFACT"
  /\ mout' = <<"ok", process_edifact_field_removal(mtext, mfield, mmode)>>
  /\ mpc' = "called"
  /\ UNCHANGED <<pvars, tvars, gvars, hvars, mfamily, mtext, mfield, mmode>>

CallIdoc ==
  /\ mpc = "start"
  /\ mfamily = "IDOC"
  /\ mout' = <<"ok", process_idoc_field_removal(mtext, mfield, mmode)>>
  /\ mpc' = "called"
  /\ UNCHANGED <<pvars, tvars, gvars, hvars, mfamily, mtext, mfield, mmode>>

NextText == CallXml \/ CallEdi \/ CallEdifact \/ CallIdoc

SpecText == InitText /\ [][NextText]_vars

\* the call has returned, or raised
Called(family) == mpc = "called" /\ mfamily = family

\* A simple element path is <segmentId><elementNumber>, the element number
\* written with two digits as in ISA06.
SimplePath(path) == Len(path) >= 3 /\ IsDigitStr(Drop(path, Len(path) - 2))
PathSegmentId(path) == Take(path, Len(path) - 2)
PathElementNo(path) == DigitsValue(Drop(path, Len(path) - 2), 0)

\* the separators of the family called: <<between segments, between elements>>
Separators == IF mfamily = "EDIFACT" THEN <<"'", "+">> ELSE <<"\n", "*">>
LinesIn == Split(mtext, Separators[1])
LinesOut == Split(mout[2], Separators[1])

\* a line the mutator reads as a segment: an X12 segment carries its "~"
IsSegmentLine(line) ==
  /\ Strip(line) # ""
  /\ Contains(line, Separators[2])
  /\ mfamily = "EDI-X12" => Contains(line, "~")

\* the line is a segment of the path's segment identifier that has element n
Addressed(line, path) ==
  /\ IsSegmentLine(line)
  /\ Split(line, Separators[2])[1] = PathSegmentId(path)
  /\ PathElementNo(path) \in 1..(Len(Split(line, Separators[2])) - 1)

\* the line with element n, and nothing else, mutated
OnlyElementMutated(line, path, mode) ==
  LET elements == Split(line, Separators[2])
      at == PathElementNo(path) + 1
  IN JoinStr([elements EXCEPT ![at] = MarkElement(elements[at], mode)], Separators[2])

\* a call with a simple element path that addresses an element of some line
ElementCall ==
  /\ Called("EDI-X12") \/ Called("EDIFACT")
  /\ SimplePath(mfield)
  /\ \E k \in 1..Len(LinesIn) : Addressed(LinesIn[k], mfield)

\* C11: after process_edi_field_removal or process_edifact_field_removal
\* with a simple element path, every segment line of the path's segment
\* identifier that has element n differs from the line read in element n
\* only ("" in remove mode, "commented-" and the old value in comment mode),
\* every other line is the line read, and the number of lines is the same.
C11_ElementFrame ==
  ElementCall =>
    /\ Len(LinesOut) = Len(LinesIn)
    /\ \A k \in 1..Len(LinesIn) :
         LinesOut[k] = IF Addressed(LinesIn[k], mfield)
                       THEN OnlyElementMutated(LinesIn[k], mfield, mmode)
                       ELSE LinesIn[k]

\* the frame of C11 on the interchanges where every segment whose identifier
\* is a prefix of the path is a segment of the path's identifier
NoPrefixLine ==
  \A k \in 1..Len(LinesIn) :
    LET id == Split(LinesIn[k], Separators[2])[1] IN
    IsSegmentLine(LinesIn[k]) /\ IsPrefix(id, mfield) => id = PathSegmentId(mfield)

C11_FrameWithoutPrefixLines == (ElementCall /\ NoPrefixLine) => C11_ElementFrame

\* the elements below the root of a document whose tag is `tag`
Tagged(xml_content, tag) ==
  LET found_below == Below(Numbered(xml_content[2], 1))
  IN {k \in 1..Len(found_below) : found_below[k][2] = tag}

\* the call returned and left no element of the tag in the document
CallMutatedAll ==
  /\ mout[1] = "ok"
  /\ Tagged(mout[2], LastStep(mfield)) = {}
  /\ mout[2] # mtext

\* C12: process_xml_field_removal on a well-formed document returns without
\* raising and, when elements below the root carry the tag that ends the
\* field path, returns a changed document in which none of them is left.
C12_AllMatchesMutated ==
  (Called("XML") /\ XmlParses(mtext)) =>
    /\ mout[1] = "ok"
    /\ Tagged(mtext, LastStep(mfield)) # {} => CallMutatedAll

\* the claim of C12 on the documents where no element that findall returns
\* is the child of another
NestedMatch(xml_content, tag) ==
  LET elements == XmlFindAll(Numbered(xml_content[2], 1), tag)
  IN \E j, k \in 1..Len(elements) : elements[k][4] = elements[j][1]

C12_HoldsWithoutNestedMatch ==
  (Called("XML") /\ XmlParses(mtext) /\ ~NestedMatch(mtext, LastStep(mfield)))
    => C12_AllMatchesMutated

\* A path is <segmentId><elementNumber> or
\* <segmentId><elementNumber>.<subelementNumber>.
ElementPath(path) == Split(path, ".")[1]
WellFormedEdiPath(path) ==
  \/ SimplePath(path)
  \/ /\ Len(Split(path, ".")) = 2
     /\ SimplePath(ElementPath(path))
     /\ IsDigitStr(Split(path, ".")[2])
EdiPathId(path) == PathSegmentId(ElementPath(path))

\* C16: process_edi_field_removal with a well-formed path changes a line
\* only if the line's leading segment identifier is the path's segment
\* identifier; a line with any other identifier (one that is a proper prefix
\* of the path's, an empty one) is the line read.
C16_OnlyEqualIdentifierMutated ==
  (Called("EDI-X12") /\ WellFormedEdiPath(mfield)) =>
    /\ Len(LinesOut) = Len(LinesIn)
    /\ \A k \in 1..Len(LinesIn) :
         LinesOut[k] # LinesIn[k] => Split(LinesIn[k], "*")[1] = EdiPathId(mfield)

\* the part of the path after the line's segment identifier
Suffix(line, path) == Drop(path, Len(Split(line, "*")[1]))

\* the suffix is a number, or two numbers with a dot between them
NumericSuffix(suffix) ==
  \/ IsDigitStr(suffix)
  \/ /\ Len(Split(suffix, ".")) = 2
     /\ IsDigitStr(Split(suffix, ".")[1])
     /\ IsDigitStr(Split(suffix, ".")[2])

\* the numbers of a numeric suffix address an element, and a sub-element,
\* that the line has
SuffixInRange(line, suffix) ==
  LET elements == Split(line, "*")
      nums == Split(suffix, ".")
      n == DigitsValue(nums[1], 0)
  IN /\ n \in 1..(Len(elements) - 1)
     /\ Len(nums) = 2 =>
          DigitsValue(nums[2], 0) \in 1..Len(Split(elements[n + 1], ":"))

\* the line is a segment the path starts with the identifier of, and the
\* rest of the path is malformed or addresses nothing the line has
BadSuffixFor(line, path) ==
  /\ IsSegmentLine(line)
  /\ Split(line, "*")[1] # ""
  /\ IsPrefix(Split(line, "*")[1], path)
  /\ ~(NumericSuffix(Suffix(line, path)) /\ SuffixInRange(line, Suffix(line, path)))

\* C17: process_edi_field_removal returns without raising, and a line for
\* which the path's suffix is not numeric, has more than one dot, or names
\* an element or sub-element number the line does not have (zero and
\* negative numbers too) is the line read.
C17_BadSuffixLeavesLine ==
  Called("EDI-X12") =>
    /\ mout[1] = "ok"
    /\ Len(LinesOut) = Len(LinesIn)
    /\ \A k \in 1..Len(LinesIn) :
         BadSuffixFor(LinesIn[k], mfield) => LinesOut[k] = LinesIn[k]

\* the claim of C17 for the suffixes that are rejected or address a number
\* above those the line has
AboveRangeOnly ==
  \A k \in 1..Len(LinesIn) :
    BadSuffixFor(LinesIn[k], mfield) =>
      LET suffix == Suffix(LinesIn[k], mfield) IN
      /\ NumericSuffix(suffix)
      /\ DigitsValue(Split(suffix, ".")[1], 0) >= 1
      /\ Len(Split(suffix, ".")) = 2 => DigitsValue(Split(suffix, ".")[2], 0) >= 1

C17_HoldsAboveRange == (Called("EDI-X12") /\ AboveRangeOnly) => C17_BadSuffixLeavesLine

\* the number of times the one-character text c occurs in t
Count(t, c) == Len(Split(t, c)) - 1

EndsWith(t, c) == t # "" /\ Char(t, Len(t)) = c

\* C18: the output of process_edi_field_removal has as many "~" as its
\* input, every line that ended with "~" still ends with it (also when the
\* element mutated is the last of its segment), and the output of
\* process_edifact_field_removal has as many "'" as its input.
C18_TerminatorsPreserved ==
  /\ Called("EDI-X12") =>
       /\ Count(mout[2], "~") = Count(mtext, "~")
       /\ Len(LinesOut) = Len(LinesIn)
       /\ \A k \in 1..Len(LinesIn) : EndsWith(LinesIn[k], "~") => EndsWith(LinesOut[k], "~")
  /\ Called("EDIFACT") => Count(mout[2], "'") = Count(mtext, "'")

\* the EDIFACT half of C18
C18_EdifactTerminatorsPreserved ==
  Called("EDIFACT") => Count(mout[2], "'") = Count(mtext, "'")

\* the segment type a line belongs to: its text up to the first space
SegmentType(line) == Split(line, " ")[1]

\* a path that names one segment type, as E1EDK01 does
NamesSegmentType(path) ==
  /\ Len(path) = 7
  /\ IsPrefix("E1", path) \/ IsPrefix("E2", path)
  /\ \A k \in 1..Len(path) : IsWordChar(Char(path, k))

IdocMarker == "* commented: "

\* the line with every character that is not whitespace replaced by a space
RECURSIVE Blanked(_)
Blanked(line) ==
  IF line = "" THEN ""
  ELSE (IF IsCharOf(Char(line, 1), Whitespace) THEN Char(line, 1) ELSE " ")
         \o Blanked(Drop(line, 1))

IdocCall == Called("IDOC") /\ NamesSegmentType(mfield)

\* C19: process_idoc_field_removal turns a line of the segment type the
\* path names into a line of the same length with a space for every
\* character that is not whitespace in remove mode, and into the marker
\* followed by the line as read in comment mode.
C19_IdocRemoveAndComment ==
  IdocCall =>
    /\ Len(LinesOut) = Len(LinesIn)
    /\ \A k \in 1..Len(LinesIn) :
         SegmentType(LinesIn[k]) = mfield =>
           /\ mmode = "remove" => LinesOut[k] = Blanked(LinesIn[k])
           /\ mmode = "comment" => LinesOut[k] = IdocMarker \o LinesIn[k]

\* the comment half of C19, and the remove half on the lines made of
\* letters, digits, "_" and whitespace
OnlyWordCharacters(line) ==
  \A k \in 1..Len(line) :
    IsWordChar(Char(line, k)) \/ IsCharOf(Char(line, k), Whitespace)

C19_HoldsForWordCharacters ==
  (IdocCall /\ (mmode = "remove" => \A k \in 1..Len(LinesIn) : OnlyWordCharacters(LinesIn[k])))
    => C19_IdocRemoveAndComment

\* C20: process_idoc_field_removal with a path that names one segment type
\* returns as many lines as it read, and every line of another segment type
\* is the line read, at the place it had.
C20_OtherSegmentTypesUntouched ==
  IdocCall =>
    /\ Len(LinesOut) = Len(LinesIn)
    /\ \A k \in 1..Len(LinesIn) :
         SegmentType(LinesIn[k]) # mfield => LinesOut[k] = LinesIn[k]

\* the number of lines, the half of C20 that holds for every path
C20_LineCountPreserved == Called("IDOC") => Len(LinesOut) = Len(LinesIn)

----------------------------------------------------------------------------
(* SpecPipe: main.py.  main() takes one option from the command line or    *)
(* reads choices from the menu; options 1 to 3 run one step, option 4 is   *)
(* run_all_processes.  A step is a subprocess the function waits for; how  *)
(* it ends is the environment's choice.                                    *)

MaxChoices == 2

\* how subprocess.run can end: return code 0, another return code, an
\* Exception (the script cannot be started), or a KeyboardInterrupt, which
\* `except Exception` does not catch
Outcomes == {"zero", "nonzero", "error", "interrupt"}

\* the steps in the order run_all_processes calls them
StepOrder == <<"extract", "required", "optional">>

\* the value run_excel_processor, run_miss_re_generator and
\* run_miss_oe_generator return for every step
StepAlwaysSucceeds(outcome) == TRUE

\* the value run_excel_processor, run_miss_re_generator and
\* run_miss_oe_generator return: True when the return code is 0, False for
\* another return code and for an Exception
StepSucceeded(outcome) == outcome = "zero"

InitPipe ==
  /\ TreeIdle
  /\ GenIdle
  /\ HBIdle
  /\ MutIdle
  /\ pmode \in {"argv", "interactive"}
  /\ ppc = "menu"
  /\ success = TRUE
  /\ plog = <<>>
  /\ run_from = 0
  /\ report = ""
  /\ choices = 0

\* where main() goes when a handler has returned: the command-line mode
\* returns, the menu loop reads the next choice
AfterHandler == IF pmode = "argv" THEN "exited" ELSE "menu"

\* options 1, 2, 3: one step on its own, its result not looked at
SingleStep ==
  /\ ppc = "menu" /\ choices < MaxChoices
  /\ \E k \in 1..3, outcome \in Outcomes :
       /\ plog' = Append(plog, <<StepOrder[k], outcome, "single">>)
       /\ ppc' = IF outcome = "interrupt" THEN "exited" ELSE AfterHandler
  /\ choices' = choices + 1
  /\ UNCHANGED <<tvars, gvars, hvars, mvars, pmode, success, run_from, report>>

\* option 5 of the menu, and a choice or an option that is none of 1 to 5
OtherChoice ==
  /\ ppc = "menu" /\ choices < MaxChoices
  /\ \E c \in {"5", "x"} :
       ppc' = IF c = "5" /\ pmode = "interactive" THEN "exited" ELSE AfterHandler
  /\ choices' = choices + 1
  /\ UNCHANGED <<tvars, gvars, hvars, mvars, pmode, success, plog, run_from, report>>

\* option 4: run_all_processes up to its first step
RunAllStart ==
  /\ ppc = "menu" /\ choices < MaxChoices
  /\ choices' = choices + 1
  /\ success' = TRUE
  /\ run_from' = Len(plog)
  /\ report' = ""
  /\ ppc' = "extract"
  /\ UNCHANGED <<tvars, gvars, hvars, mvars, pmode, plog>>

\* success &= run_...(): the step runs to its end; a KeyboardInterrupt
\* leaves run_all_processes and main
RunStep(name, next) ==
  \E outcome \in Outcomes :
    /\ plog' = Append(plog, <<name, outcome, "all">>)
    /\ IF outcome = "interrupt"
       THEN ppc' = "exited" /\ success' = success
       ELSE ppc' = next /\ success' = (success /\ StepSucceeded(outcome))

\* success &= run_excel_processor()
RunAllExtract ==
  /\ ppc = "extract"
  /\ RunStep("extract", "required")
  /\ UNCHANGED <<tvars, gvars, hvars, mvars, pmode, run_from, report, choices>>

\* if success: success &= run_miss_re_generator()
RunAllRequired ==
  /\ ppc = "required"
  /\ IF success THEN RunStep("required", "optional")
     ELSE ppc' = "optional" /\ UNCHANGED <<plog, success>>
  /\ UNCHANGED <<tvars, gvars, hvars, mvars, pmode, run_from, report, choices>>

\* if success: success &= run_miss_oe_generator()
RunAllOptional ==
  /\ ppc = "optional"
  /\ IF success THEN RunStep("optional", "report")
     ELSE ppc' = "report" /\ UNCHANGED <<plog, success>>
  /\ UNCHANGED <<tvars, gvars, hvars, mvars, pmode, run_from, report, choices>>

\* the last lines of run_all_processes: one of its two messages
RunAllReport ==
  /\ ppc = "report"
  /\ report' = IF success THEN "success" ELSE "failed"
  /\ ppc' = AfterHandler
  /\ UNCHANGED <<tvars, gvars, hvars, mvars, pmode, success, plog, run_from, choices>>

NextPipe == SingleStep \/ OtherChoice \/ RunAllStart \/ RunAllExtract
              \/ RunAllRequired \/ RunAllOptional \/ RunAllReport

SpecPipe == InitPipe /\ [][NextPipe]_vars

\* the steps the current call of run_all_processes has started, in order
StepsOfRun == SubSeq(plog, run_from + 1, Len(plog))

InRunAll == ppc \in {"extract", "required", "optional", "report"}

\* every step of the sequence ended with return code 0
AllSucceeded(steps) == \A k \in 1..Len(steps) : steps[k][2] = "zero"

\* C26: run_all_processes starts its steps in the order extract, generate
\* required, generate optional; it starts a step only when every earlier
\* step of the call has ended with success, so no step is started after a
\* failed one; and it prints its success message only when the three steps
\* have all ended with success.
C26_StepOrdering ==
  [][/\ (InRunAll /\ Len(plog') > Len(plog))
          => /\ Len(StepsOfRun) < Len(StepOrder)
             /\ plog'[Len(plog')][1] = StepOrder[Len(StepsOfRun) + 1]
             /\ AllSucceeded(StepsOfRun)
     /\ (InRunAll /\ report' = "success")
          => /\ Len(StepsOfRun) = Len(StepOrder)
             /\ AllSucceeded(StepsOfRun)]_vars

\* a call of run_all_processes whose second step failed: the third was not
\* started and the failure message is printed
C26_Witness ==
  /\ report = "failed"
  /\ Len(StepsOfRun) = 2
  /\ StepsOfRun[1][2] = "zero"
  /\ StepsOfRun[2][1] = "required"
  /\ StepsOfRun[2][2] \in {"nonzero", "error"}

====
